---- MODULE Spec2Model ----
(***************************************************************************)
(* nstar: the timed signal sequencer (Morse blink scheduler) in its two    *)
(* variants.                                                               *)
(*   - MorseController (src/public/morse.js): play / playNext / stop over   *)
(*     a parsed timeline, driven by a chain of cancellable timers and       *)
(*     user-supplied callbacks.                                             *)
(*   - the canvas variant (src/app.js): startMorseCode / processMorseQueue  *)
(*     over a global queue, with animate() writing the twinkle brightness. *)
(* Durations are milliseconds.  A step of the model is one whole handler    *)
(* run by the event loop: a call made by the page, a timer firing, an       *)
(* animation frame, or the passage of time up to the next instant at which  *)
(* something can happen.                                                    *)
(***************************************************************************)
EXTENDS Integers, Sequences, FiniteSets, TLC

(***************************************************************************)
(* Bounds of the model.                                                    *)
(***************************************************************************)
\* longest text handed to the pure encoders
MaxLen == 4
\* play() calls made by the page in one session of the controller
MaxPlays == 2
\* startMorseCode calls in one session of the canvas page
MaxRuns == 2
\* animation frames that advance starPulse
MaxFrames == 2
\* stop() calls the page makes in a row
MaxStopsInRow == 2
\* clicks on the canvas page's enable button, and permission requests of the
\* viewer outstanding at one time
MaxClicks == 2
\* ArrowLeft or ArrowRight presses in one direction, net, from the start
MaxTurns == 80

(***************************************************************************)
(* Timing constants.                                                       *)
(***************************************************************************)
\* src/public/morse.js 29-33
DOT_DURATION == 200
DASH_DURATION == DOT_DURATION * 3
SYMBOL_GAP == DOT_DURATION
LETTER_GAP == DOT_DURATION * 3
WORD_GAP == DOT_DURATION * 7

\* src/app.js 41-45
CANVAS_DOT_DURATION == 200
CANVAS_DASH_DURATION == 600
CANVAS_SYMBOL_GAP == 200
CANVAS_LETTER_GAP == 600
CANVAS_WORD_GAP == 1400

(***************************************************************************)
(* A JavaScript string is a sequence of UTF-16 code units, and a text is   *)
(* the sequence of its code units, which split('') gives one by one.  A    *)
(* printable ASCII character is written as itself, any other code unit by  *)
(* its code point: "U+00DF" is the one code unit of the sharp s (and       *)
(* "U+0060" the grave accent, which a string of this language cannot       *)
(* hold).  Morse strings are sequences of the same kind.                   *)
(***************************************************************************)
\* src/public/morse.js 2-19
MORSE_CODE ==
    "A" :> <<".", "-">> @@ "B" :> <<"-", ".", ".", ".">> @@ "C" :> <<"-", ".", "-", ".">> @@
    "D" :> <<"-", ".", ".">> @@ "E" :> <<".">> @@ "F" :> <<".", ".", "-", ".">> @@
    "G" :> <<"-", "-", ".">> @@ "H" :> <<".", ".", ".", ".">> @@ "I" :> <<".", ".">> @@
    "J" :> <<".", "-", "-", "-">> @@ "K" :> <<"-", ".", "-">> @@ "L" :> <<".", "-", ".", ".">> @@
    "M" :> <<"-", "-">> @@ "N" :> <<"-", ".">> @@ "O" :> <<"-", "-", "-">> @@
    "P" :> <<".", "-", "-", ".">> @@ "Q" :> <<"-", "-", ".", "-">> @@ "R" :> <<".", "-", ".">> @@
    "S" :> <<".", ".", ".">> @@ "T" :> <<"-">> @@ "U" :> <<".", ".", "-">> @@
    "V" :> <<".", ".", ".", "-">> @@ "W" :> <<".", "-", "-">> @@ "X" :> <<"-", ".", ".", "-">> @@
    "Y" :> <<"-", ".", "-", "-">> @@ "Z" :> <<"-", "-", ".", ".">> @@ "0" :> <<"-", "-", "-", "-", "-">> @@
    "1" :> <<".", "-", "-", "-", "-">> @@ "2" :> <<".", ".", "-", "-", "-">> @@ "3" :> <<".", ".", ".", "-", "-">> @@
    "4" :> <<".", ".", ".", ".", "-">> @@ "5" :> <<".", ".", ".", ".", ".">> @@ "6" :> <<"-", ".", ".", ".", ".">> @@
    "7" :> <<"-", "-", ".", ".", ".">> @@ "8" :> <<"-", "-", "-", ".", ".">> @@ "9" :> <<"-", "-", "-", "-", ".">> @@
    "." :> <<".", "-", ".", "-", ".", "-">> @@ "," :> <<"-", "-", ".", ".", "-", "-">> @@ "?" :> <<".", ".", "-", "-", ".", ".">> @@
    "'" :> <<".", "-", "-", "-", "-", ".">> @@ "!" :> <<"-", ".", "-", ".", "-", "-">> @@ "/" :> <<"-", ".", ".", "-", ".">> @@
    "(" :> <<"-", ".", "-", "-", ".">> @@ ")" :> <<"-", ".", "-", "-", ".", "-">> @@ "&" :> <<".", "-", ".", ".", ".">> @@
    ":" :> <<"-", "-", "-", ".", ".", ".">> @@ ";" :> <<"-", ".", "-", ".", "-", ".">> @@ "=" :> <<"-", ".", ".", ".", "-">> @@
    "+" :> <<".", "-", ".", "-", ".">> @@ "-" :> <<"-", ".", ".", ".", ".", "-">> @@ "_" :> <<".", ".", "-", "-", ".", "-">> @@
    "\"" :> <<".", "-", ".", ".", "-", ".">> @@ "$" :> <<".", ".", ".", "-", ".", ".", "-">> @@ "@" :> <<".", "-", "-", ".", "-", ".">> @@
    " " :> <<"/">>

\* src/app.js 47-55
CANVAS_MORSE_CODE ==
    "A" :> <<".", "-">> @@ "B" :> <<"-", ".", ".", ".">> @@ "C" :> <<"-", ".", "-", ".">> @@
    "D" :> <<"-", ".", ".">> @@ "E" :> <<".">> @@ "F" :> <<".", ".", "-", ".">> @@
    "G" :> <<"-", "-", ".">> @@ "H" :> <<".", ".", ".", ".">> @@ "I" :> <<".", ".">> @@
    "J" :> <<".", "-", "-", "-">> @@ "K" :> <<"-", ".", "-">> @@ "L" :> <<".", "-", ".", ".">> @@
    "M" :> <<"-", "-">> @@ "N" :> <<"-", ".">> @@ "O" :> <<"-", "-", "-">> @@
    "P" :> <<".", "-", "-", ".">> @@ "Q" :> <<"-", "-", ".", "-">> @@ "R" :> <<".", "-", ".">> @@
    "S" :> <<".", ".", ".">> @@ "T" :> <<"-">> @@ "U" :> <<".", ".", "-">> @@
    "V" :> <<".", ".", ".", "-">> @@ "W" :> <<".", "-", "-">> @@ "X" :> <<"-", ".", ".", "-">> @@
    "Y" :> <<"-", ".", "-", "-">> @@ "Z" :> <<"-", "-", ".", ".">> @@ "1" :> <<".", "-", "-", "-", "-">> @@
    "2" :> <<".", ".", "-", "-", "-">> @@ "3" :> <<".", ".", ".", "-", "-">> @@ "4" :> <<".", ".", ".", ".", "-">> @@
    "5" :> <<".", ".", ".", ".", ".">> @@ "6" :> <<"-", ".", ".", ".", ".">> @@ "7" :> <<"-", "-", ".", ".", ".">> @@
    "8" :> <<"-", "-", "-", ".", ".">> @@ "9" :> <<"-", "-", "-", "-", ".">> @@ "0" :> <<"-", "-", "-", "-", "-">> @@
    " " :> <<" ">>

\* String.prototype.toUpperCase, code unit by code unit, on the printable ASCII
\* characters, the characters of Latin-1 (U+00A0 to U+00FF), and every other
\* character of Unicode whose upper case is not one code unit outside ASCII:
\* the long s and the dotless i become "S" and "I", the sharp s and the
\* ligatures become two or three code units.  The upper case of a character
\* does not depend on its neighbours.  No other character is in the domain.
UPPER ==
    LET cased ==
            {
             <<"a", <<"A">>>>, <<"b", <<"B">>>>, <<"c", <<"C">>>>, <<"d", <<"D">>>>,
             <<"e", <<"E">>>>, <<"f", <<"F">>>>, <<"g", <<"G">>>>, <<"h", <<"H">>>>,
             <<"i", <<"I">>>>, <<"j", <<"J">>>>, <<"k", <<"K">>>>, <<"l", <<"L">>>>,
             <<"m", <<"M">>>>, <<"n", <<"N">>>>, <<"o", <<"O">>>>, <<"p", <<"P">>>>,
             <<"q", <<"Q">>>>, <<"r", <<"R">>>>, <<"s", <<"S">>>>, <<"t", <<"T">>>>,
             <<"u", <<"U">>>>, <<"v", <<"V">>>>, <<"w", <<"W">>>>, <<"x", <<"X">>>>,
             <<"y", <<"Y">>>>, <<"z", <<"Z">>>>, <<"U+00B5", <<"U+039C">>>>,
             <<"U+00DF", <<"S", "S">>>>, <<"U+00E0", <<"U+00C0">>>>,
             <<"U+00E1", <<"U+00C1">>>>, <<"U+00E2", <<"U+00C2">>>>,
             <<"U+00E3", <<"U+00C3">>>>, <<"U+00E4", <<"U+00C4">>>>,
             <<"U+00E5", <<"U+00C5">>>>, <<"U+00E6", <<"U+00C6">>>>,
             <<"U+00E7", <<"U+00C7">>>>, <<"U+00E8", <<"U+00C8">>>>,
             <<"U+00E9", <<"U+00C9">>>>, <<"U+00EA", <<"U+00CA">>>>,
             <<"U+00EB", <<"U+00CB">>>>, <<"U+00EC", <<"U+00CC">>>>,
             <<"U+00ED", <<"U+00CD">>>>, <<"U+00EE", <<"U+00CE">>>>,
             <<"U+00EF", <<"U+00CF">>>>, <<"U+00F0", <<"U+00D0">>>>,
             <<"U+00F1", <<"U+00D1">>>>, <<"U+00F2", <<"U+00D2">>>>,
             <<"U+00F3", <<"U+00D3">>>>, <<"U+00F4", <<"U+00D4">>>>,
             <<"U+00F5", <<"U+00D5">>>>, <<"U+00F6", <<"U+00D6">>>>,
             <<"U+00F8", <<"U+00D8">>>>, <<"U+00F9", <<"U+00D9">>>>,
             <<"U+00FA", <<"U+00DA">>>>, <<"U+00FB", <<"U+00DB">>>>,
             <<"U+00FC", <<"U+00DC">>>>, <<"U+00FD", <<"U+00DD">>>>,
             <<"U+00FE", <<"U+00DE">>>>, <<"U+00FF", <<"U+0178">>>>,
             <<"U+0131", <<"I">>>>, <<"U+0149", <<"U+02BC", "N">>>>,
             <<"U+017F", <<"S">>>>, <<"U+01F0", <<"J", "U+030C">>>>,
             <<"U+0390", <<"U+0399", "U+0308", "U+0301">>>>,
             <<"U+03B0", <<"U+03A5", "U+0308", "U+0301">>>>,
             <<"U+0587", <<"U+0535", "U+0552">>>>, <<"U+1E96", <<"H", "U+0331">>>>,
             <<"U+1E97", <<"T", "U+0308">>>>, <<"U+1E98", <<"W", "U+030A">>>>,
             <<"U+1E99", <<"Y", "U+030A">>>>, <<"U+1E9A", <<"A", "U+02BE">>>>,
             <<"U+1F50", <<"U+03A5", "U+0313">>>>,
             <<"U+1F52", <<"U+03A5", "U+0313", "U+0300">>>>,
             <<"U+1F54", <<"U+03A5", "U+0313", "U+0301">>>>,
             <<"U+1F56", <<"U+03A5", "U+0313", "U+0342">>>>,
             <<"U+1F80", <<"U+1F08", "U+0399">>>>,
             <<"U+1F81", <<"U+1F09", "U+0399">>>>,
             <<"U+1F82", <<"U+1F0A", "U+0399">>>>,
             <<"U+1F83", <<"U+1F0B", "U+0399">>>>,
             <<"U+1F84", <<"U+1F0C", "U+0399">>>>,
             <<"U+1F85", <<"U+1F0D", "U+0399">>>>,
             <<"U+1F86", <<"U+1F0E", "U+0399">>>>,
             <<"U+1F87", <<"U+1F0F", "U+0399">>>>,
             <<"U+1F88", <<"U+1F08", "U+0399">>>>,
             <<"U+1F89", <<"U+1F09", "U+0399">>>>,
             <<"U+1F8A", <<"U+1F0A", "U+0399">>>>,
             <<"U+1F8B", <<"U+1F0B", "U+0399">>>>,
             <<"U+1F8C", <<"U+1F0C", "U+0399">>>>,
             <<"U+1F8D", <<"U+1F0D", "U+0399">>>>,
             <<"U+1F8E", <<"U+1F0E", "U+0399">>>>,
             <<"U+1F8F", <<"U+1F0F", "U+0399">>>>,
             <<"U+1F90", <<"U+1F28", "U+0399">>>>,
             <<"U+1F91", <<"U+1F29", "U+0399">>>>,
             <<"U+1F92", <<"U+1F2A", "U+0399">>>>,
             <<"U+1F93", <<"U+1F2B", "U+0399">>>>,
             <<"U+1F94", <<"U+1F2C", "U+0399">>>>,
             <<"U+1F95", <<"U+1F2D", "U+0399">>>>,
             <<"U+1F96", <<"U+1F2E", "U+0399">>>>,
             <<"U+1F97", <<"U+1F2F", "U+0399">>>>,
             <<"U+1F98", <<"U+1F28", "U+0399">>>>,
             <<"U+1F99", <<"U+1F29", "U+0399">>>>,
             <<"U+1F9A", <<"U+1F2A", "U+0399">>>>,
             <<"U+1F9B", <<"U+1F2B", "U+0399">>>>,
             <<"U+1F9C", <<"U+1F2C", "U+0399">>>>,
             <<"U+1F9D", <<"U+1F2D", "U+0399">>>>,
             <<"U+1F9E", <<"U+1F2E", "U+0399">>>>,
             <<"U+1F9F", <<"U+1F2F", "U+0399">>>>,
             <<"U+1FA0", <<"U+1F68", "U+0399">>>>,
             <<"U+1FA1", <<"U+1F69", "U+0399">>>>,
             <<"U+1FA2", <<"U+1F6A", "U+0399">>>>,
             <<"U+1FA3", <<"U+1F6B", "U+0399">>>>,
             <<"U+1FA4", <<"U+1F6C", "U+0399">>>>,
             <<"U+1FA5", <<"U+1F6D", "U+0399">>>>,
             <<"U+1FA6", <<"U+1F6E", "U+0399">>>>,
             <<"U+1FA7", <<"U+1F6F", "U+0399">>>>,
             <<"U+1FA8", <<"U+1F68", "U+0399">>>>,
             <<"U+1FA9", <<"U+1F69", "U+0399">>>>,
             <<"U+1FAA", <<"U+1F6A", "U+0399">>>>,
             <<"U+1FAB", <<"U+1F6B", "U+0399">>>>,
             <<"U+1FAC", <<"U+1F6C", "U+0399">>>>,
             <<"U+1FAD", <<"U+1F6D", "U+0399">>>>,
             <<"U+1FAE", <<"U+1F6E", "U+0399">>>>,
             <<"U+1FAF", <<"U+1F6F", "U+0399">>>>,
             <<"U+1FB2", <<"U+1FBA", "U+0399">>>>,
             <<"U+1FB3", <<"U+0391", "U+0399">>>>,
             <<"U+1FB4", <<"U+0386", "U+0399">>>>,
             <<"U+1FB6", <<"U+0391", "U+0342">>>>,
             <<"U+1FB7", <<"U+0391", "U+0342", "U+0399">>>>,
             <<"U+1FBC", <<"U+0391", "U+0399">>>>,
             <<"U+1FC2", <<"U+1FCA", "U+0399">>>>,
             <<"U+1FC3", <<"U+0397", "U+0399">>>>,
             <<"U+1FC4", <<"U+0389", "U+0399">>>>,
             <<"U+1FC6", <<"U+0397", "U+0342">>>>,
             <<"U+1FC7", <<"U+0397", "U+0342", "U+0399">>>>,
             <<"U+1FCC", <<"U+0397", "U+0399">>>>,
             <<"U+1FD2", <<"U+0399", "U+0308", "U+0300">>>>,
             <<"U+1FD3", <<"U+0399", "U+0308", "U+0301">>>>,
             <<"U+1FD6", <<"U+0399", "U+0342">>>>,
             <<"U+1FD7", <<"U+0399", "U+0308", "U+0342">>>>,
             <<"U+1FE2", <<"U+03A5", "U+0308", "U+0300">>>>,
             <<"U+1FE3", <<"U+03A5", "U+0308", "U+0301">>>>,
             <<"U+1FE4", <<"U+03A1", "U+0313">>>>,
             <<"U+1FE6", <<"U+03A5", "U+0342">>>>,
             <<"U+1FE7", <<"U+03A5", "U+0308", "U+0342">>>>,
             <<"U+1FF2", <<"U+1FFA", "U+0399">>>>,
             <<"U+1FF3", <<"U+03A9", "U+0399">>>>,
             <<"U+1FF4", <<"U+038F", "U+0399">>>>,
             <<"U+1FF6", <<"U+03A9", "U+0342">>>>,
             <<"U+1FF7", <<"U+03A9", "U+0342", "U+0399">>>>,
             <<"U+1FFC", <<"U+03A9", "U+0399">>>>, <<"U+FB00", <<"F", "F">>>>,
             <<"U+FB01", <<"F", "I">>>>, <<"U+FB02", <<"F", "L">>>>,
             <<"U+FB03", <<"F", "F", "I">>>>, <<"U+FB04", <<"F", "F", "L">>>>,
             <<"U+FB05", <<"S", "T">>>>, <<"U+FB06", <<"S", "T">>>>,
             <<"U+FB13", <<"U+0544", "U+0546">>>>,
             <<"U+FB14", <<"U+0544", "U+0535">>>>,
             <<"U+FB15", <<"U+0544", "U+053B">>>>,
             <<"U+FB16", <<"U+054E", "U+0546">>>>, <<"U+FB17", <<"U+0544", "U+053D">>>>
            }
        uncased ==
            {
             " ", "!", "\"", "#", "$", "%", "&", "'", "(", ")", "*", "+", ",", "-",
             ".", "/", "0", "1", "2", "3", "4", "5", "6", "7", "8", "9", ":", ";", "<",
             "=", ">", "?", "@", "A", "B", "C", "D", "E", "F", "G", "H", "I", "J", "K",
             "L", "M", "N", "O", "P", "Q", "R", "S", "T", "U", "V", "W", "X", "Y", "Z",
             "[", "\\", "]", "^", "_", "U+0060", "{", "|", "}", "~", "U+00A0", "U+00A1",
             "U+00A2", "U+00A3", "U+00A4", "U+00A5", "U+00A6", "U+00A7", "U+00A8",
             "U+00A9", "U+00AA", "U+00AB", "U+00AC", "U+00AD", "U+00AE", "U+00AF",
             "U+00B0", "U+00B1", "U+00B2", "U+00B3", "U+00B4", "U+00B6", "U+00B7",
             "U+00B8", "U+00B9", "U+00BA", "U+00BB", "U+00BC", "U+00BD", "U+00BE",
             "U+00BF", "U+00C0", "U+00C1", "U+00C2", "U+00C3", "U+00C4", "U+00C5",
             "U+00C6", "U+00C7", "U+00C8", "U+00C9", "U+00CA", "U+00CB", "U+00CC",
             "U+00CD", "U+00CE", "U+00CF", "U+00D0", "U+00D1", "U+00D2", "U+00D3",
             "U+00D4", "U+00D5", "U+00D6", "U+00D7", "U+00D8", "U+00D9", "U+00DA",
             "U+00DB", "U+00DC", "U+00DD", "U+00DE", "U+00F7"
            }
    IN  [ch \in uncased |-> <<ch>>]
        @@ [ch \in {pair[1] : pair \in cased} |->
                (CHOOSE pair \in cased : pair[1] = ch)[2]]

\* Array.prototype.join: the parts with sep between each two of them
RECURSIVE Join(_, _)
Join(parts, sep) ==
    IF parts = <<>> THEN <<>>
    ELSE IF Len(parts) = 1 THEN parts[1]
    ELSE parts[1] \o sep \o Join(Tail(parts), sep)

\* text.toUpperCase(): the upper cases of the code units, one after the other
toUpperCase(text) == Join([i \in 1..Len(text) |-> UPPER[text[i]]], <<>>)

\* MORSE_CODE[char] || ''
Lookup(tbl, ch) == IF ch \in DOMAIN tbl THEN tbl[ch] ELSE <<>>

\* MorseController.textToMorse
textToMorse(text) ==
    LET chars == toUpperCase(text)
    IN  Join([i \in 1..Len(chars) |-> Lookup(MORSE_CODE, chars[i])], <<" ">>)

\* textToMorse of src/app.js
canvasTextToMorse(text) ==
    LET chars == toUpperCase(text)
    IN  Join([i \in 1..Len(chars) |-> Lookup(CANVAS_MORSE_CODE, chars[i])], <<" ">>)

On(d) == [type |-> "on", duration |-> d]
Off(d) == [type |-> "off", duration |-> d]

\* morse[i] of the source for the 0-based index i; "undefined" past the end
At(morse, i) == IF i >= 0 /\ i < Len(morse) THEN morse[i + 1] ELSE "undefined"

\* a symbol gap after every dot or dash, the last of a character too
GapAfterEverySymbol(morse, i) == <<Off(SYMBOL_GAP)>>

\* the symbol gap pushed after a dot or dash at 0-based index i
GapAfterSymbol(morse, i) ==
    IF i < Len(morse) - 1 /\ At(morse, i + 1) # " " THEN <<Off(SYMBOL_GAP)>> ELSE <<>>

\* the for loop of MorseController.parseSequence, from 0-based index i
RECURSIVE ParseLoop(_, _, _)
ParseLoop(morse, i, sequence) ==
    IF ~(i < Len(morse)) THEN sequence
    ELSE LET char == At(morse, i) IN
         IF char = "." THEN
             ParseLoop(morse, i + 1,
                       sequence \o <<On(DOT_DURATION)>> \o GapAfterSymbol(morse, i))
         ELSE IF char = "-" THEN
             ParseLoop(morse, i + 1,
                       sequence \o <<On(DASH_DURATION)>> \o GapAfterSymbol(morse, i))
         ELSE IF char = " " THEN
             IF At(morse, i + 1) = " " \/ At(morse, i + 1) = "/"
             THEN ParseLoop(morse, i + 2, Append(sequence, Off(WORD_GAP)))
             ELSE ParseLoop(morse, i + 1, Append(sequence, Off(LETTER_GAP)))
         ELSE IF char = "/" THEN
             ParseLoop(morse, i + 1, Append(sequence, Off(WORD_GAP)))
         ELSE ParseLoop(morse, i + 1, sequence)

\* MorseController.parseSequence
parseSequence(text) == ParseLoop(textToMorse(text), 0, <<>>)

\* the for-of loop of startMorseCode (src/app.js), over the rest of the string
RECURSIVE QueueLoop(_, _)
QueueLoop(morse, queue) ==
    IF morse = <<>> THEN queue
    ELSE LET char == Head(morse) IN
         IF char = "." THEN
             QueueLoop(Tail(morse),
                       queue \o <<On(CANVAS_DOT_DURATION), Off(CANVAS_SYMBOL_GAP)>>)
         ELSE IF char = "-" THEN
             QueueLoop(Tail(morse),
                       queue \o <<On(CANVAS_DASH_DURATION), Off(CANVAS_SYMBOL_GAP)>>)
         ELSE IF char = " " THEN
             QueueLoop(Tail(morse), Append(queue, Off(CANVAS_LETTER_GAP)))
         ELSE QueueLoop(Tail(morse), queue)

\* the queue startMorseCode builds before it starts processing it
buildMorseQueue(text) == QueueLoop(canvasTextToMorse(text), <<>>)

(***************************************************************************)
(* Brightness values, in thousandths.                                      *)
(***************************************************************************)
\* 1.0: src/app.js 36, 250, 255
FULL == 1000
\* 0.0: src/app.js 255
DARK == 0

\* null in currentTimeout: src/public/morse.js 24 (timer handles are positive)
NULL == 0

\* the texts the page plays through the controller
CtlTexts == {<<>>, <<"#">>, <<"#", "#">>, <<"E">>, <<"N">>, <<"E", " ", "T">>}
\* the texts a callback that re-enters play() passes
ReplayTexts == {<<"E">>, <<"N">>}
\* the texts sent on the canvas page
CanvasTexts == {<<"#">>, <<"E">>, <<"N">>}
\* the characters of the texts handed to the pure encoders: letters of the
\* tables, a small letter, the long s (whose upper case is "S"), the sharp s
\* (whose upper case is "SS"), the space and a character of no table
Alphabet == {"E", "T", "S", "O", "s", "U+017F", "U+00DF", " ", "#"}

RECURSIVE TextsUpTo(_)
TextsUpTo(n) ==
    IF n = 0 THEN {<<>>}
    ELSE LET shorter == TextsUpTo(n - 1) IN
         shorter \cup {Append(t, ch) : t \in {u \in shorter : Len(u) = n - 1}, ch \in Alphabet}

Texts == TextsUpTo(MaxLen)

VARIABLES
    \* MorseController (src/public/morse.js): the fields of the instance
    isPlaying, currentTimeout, sequence, currentIndex,
    onCallback, offCallback, completeCallback,
    \* its environment: the event loop's pending timers, oldest first, each with
    \* the time left until it is due, and the brightness the callbacks write
    timers, brightness,
    \* history: callbacks invoked since the timeline was loaded, the text of the
    \* loaded timeline, calls made by the page, completions of the loaded timeline
    log, text, plays, completions,
    \* history: the time since the timeline was loaded, and that time at each of
    \* the callbacks in log
    elapsed, stamps,
    \* history: the latest page call was a play() over a Playing run; stop() is
    \* the latest call into the controller; stop() calls by the page in a row;
    \* a timer that fired after that stop() invoked a callback
    replaced, stopCalled, stopsInRow, lateCallback,
    \* the canvas page (src/app.js)
    morseQueue, isMorseBlinking, starOpacity, starPulse,
    \* its pending processMorseQueue timers, oldest first: the time left of each
    canvasTimers,
    \* history: startMorseCode calls; time left of the entry dequeued last; an
    \* entry's brightness was overwritten before its duration had elapsed; who
    \* wrote starOpacity last
    runs, entryLeft, entryCut, lastWriter,
    \* the canvas page's sensors: initSensors has run (the deviceorientation
    \* listener is registered and animate() is running); navigator.geolocation
    \* and its request; the two objects the handlers write
    sensorsOn, geolocation, locationData, deviceOrientation,
    \* DeviceOrientationEvent.requestPermission is a function; the requests the
    \* click handler awaits; the calls of initSensors; the location requests not
    \* yet answered; the permission screen has the class hidden; history: the
    \* clicks on the enable button
    permissionNeeded, pendingPermission, initSensorsCalls, geoPending,
    permissionHidden, clicks,
    \* history: the latest orientation event and deviceOrientation before it; what
    \* the latest animation frame computed and whether it called drawStar
    orientationEvent, prevOrientation, frame,
    \* the pure encoders: the input, and the results once computed
    pText, pParsed, pSequence, pQueued, pQueue,
    \* getScreenPosition as a function: the target, and the result once computed
    targetAltitude, targetAzimuth, projected, projection,
    \* the NorthStarViewer page: the fields of the instance, the attributes of
    \* the star and the listeners it has registered, and its environment
    viewer,
    \* calculateMagneticDeclination as a function: the position, and the result
    \* once computed
    declLatitude, declLongitude, declResult,
    \* calculateLocalSiderealTime as a function: the date in milliseconds from
    \* J2000, the longitude as a double, and the result, a double, once computed
    lstDate, lstLongitude, lstResult,
    \* the desktop controls of the viewer: the device test, the camera's rotation
    \* in degrees, the grid's visible attribute
    isIOS, rotation, gridVisible

ctlVars == <<isPlaying, currentTimeout, sequence, currentIndex, onCallback,
             offCallback, completeCallback, timers, brightness,
             log, text, plays, completions, replaced, stopCalled, stopsInRow,
             lateCallback, elapsed, stamps>>
canvasVars == <<morseQueue, isMorseBlinking, starOpacity, starPulse, canvasTimers,
                runs, entryLeft, entryCut, lastWriter>>
sensorVars == <<sensorsOn, geolocation, locationData, deviceOrientation,
                permissionNeeded, pendingPermission, initSensorsCalls, geoPending,
                permissionHidden, clicks,
                orientationEvent, prevOrientation, frame>>
parseVars == <<pText, pParsed, pSequence, pQueued, pQueue>>
projVars == <<targetAltitude, targetAzimuth, projected, projection>>
viewerVars == <<viewer>>
declVars == <<declLatitude, declLongitude, declResult>>
lstVars == <<lstDate, lstLongitude, lstResult>>
keyVars == <<isIOS, rotation, gridVisible>>
calcVars == <<declVars, lstVars, keyVars>>
vars == <<ctlVars, canvasVars, sensorVars, parseVars, projVars, viewerVars, calcVars>>

(***************************************************************************)
(* MorseController.  The methods are operators from the state before the   *)
(* call to the state after it, over a record of the instance's fields and  *)
(* its environment, so that a callback can call back into the controller   *)
(* in the middle of a method, as it can in the source.                     *)
(***************************************************************************)
\* the state a handler starts from; stoppedAtEntry: the handler is a timer's
\* and stop() was the latest call into the controller when it fired
World(timerAfterStop) ==
    [isPlaying |-> isPlaying, currentTimeout |-> currentTimeout,
     sequence |-> sequence, currentIndex |-> currentIndex,
     onCallback |-> onCallback, offCallback |-> offCallback,
     completeCallback |-> completeCallback,
     timers |-> timers, brightness |-> brightness,
     log |-> log, text |-> text, completions |-> completions,
     stopCalled |-> stopCalled, lateCallback |-> lateCallback,
     elapsed |-> elapsed, stamps |-> stamps,
     stoppedAtEntry |-> timerAfterStop]

\* the state a handler leaves when it returns to the event loop
Commit(s) ==
    /\ isPlaying' = s.isPlaying
    /\ currentTimeout' = s.currentTimeout
    /\ sequence' = s.sequence
    /\ currentIndex' = s.currentIndex
    /\ onCallback' = s.onCallback
    /\ offCallback' = s.offCallback
    /\ completeCallback' = s.completeCallback
    /\ timers' = s.timers
    /\ brightness' = s.brightness
    /\ log' = s.log
    /\ text' = s.text
    /\ completions' = s.completions
    /\ stopCalled' = s.stopCalled
    /\ lateCallback' = s.lateCallback
    /\ elapsed' = s.elapsed
    /\ stamps' = s.stamps

\* a timer handle that is neither pending nor held in currentTimeout
FreshId(s) ==
    LET used == {s.timers[i].id : i \in 1..Len(s.timers)} \cup {s.currentTimeout}
    IN  CHOOSE n \in 1..(Len(s.timers) + 2) :
            n \notin used /\ \A m \in 1..(n - 1) : m \in used

\* this.currentTimeout = setTimeout(..., duration)
setTimeout(s, duration) ==
    LET id == FreshId(s) IN
    [s EXCEPT !.timers = Append(@, [id |-> id, left |-> duration]),
              !.currentTimeout = id]

\* clearTimeout(id): no effect when the timer has fired already
clearTimeout(pending, id) == SelectSeq(pending, LAMBDA t : t.id # id)

\* a closure the page passes to play(), or undefined: what it does, the text
\* it plays when it calls play(), and whether it has called stop() or play()
Closure(kind, txt) == [kind |-> kind, text |-> txt, used |-> FALSE]

RECURSIVE Call(_, _), stop(_), playNext(_), play(_, _, _, _, _)

\* the controller calls the closure it holds as its on-, off- or completion
\* callback.  "plain": the on-callback sets the brightness to 1.0, the
\* off-callback to 0, the completion callback only takes note.  "stop" and
\* "play": the same, and the first time it runs the closure calls stop(), or
\* play(its text, ...) with plain callbacks, on the controller; the closure
\* notes that it has done so before the call.
Call(s, which) ==
    LET cb == IF which = "on" THEN s.onCallback
              ELSE IF which = "off" THEN s.offCallback
              ELSE s.completeCallback
        s1 == [s EXCEPT !.log = Append(@, which),
                        !.stamps = Append(@, s.elapsed),
                        !.brightness = IF which = "on" THEN FULL
                                       ELSE IF which = "off" THEN DARK ELSE @,
                        !.completions = IF which = "complete" THEN @ + 1 ELSE @,
                        !.lateCallback = @ \/ s.stoppedAtEntry]
        s2 == IF which = "on" THEN [s1 EXCEPT !.onCallback.used = TRUE]
              ELSE IF which = "off" THEN [s1 EXCEPT !.offCallback.used = TRUE]
              ELSE [s1 EXCEPT !.completeCallback.used = TRUE]
    IN  IF cb.kind = "stop" /\ ~cb.used
        THEN stop([s2 EXCEPT !.stopCalled = TRUE])
        ELSE IF cb.kind = "play" /\ ~cb.used
        THEN play(s2, cb.text, Closure("plain", <<>>), Closure("plain", <<>>),
                  Closure("plain", <<>>))
        ELSE s1

\* stop() that forgets the pending timer: the handle is dropped, the timer is not
\* cleared
stopWithoutClear(s) ==
    LET s1 == [s EXCEPT !.isPlaying = FALSE, !.currentTimeout = NULL]
    IN  IF s1.offCallback.kind # "undefined" THEN Call(s1, "off") ELSE s1

\* MorseController.stop
stop(s) ==
    LET s1 == [s EXCEPT !.isPlaying = FALSE]
        s2 == IF s1.currentTimeout # NULL
              THEN [s1 EXCEPT !.timers = clearTimeout(@, s1.currentTimeout),
                              !.currentTimeout = NULL]
              ELSE s1
    IN  IF s2.offCallback.kind # "undefined" THEN Call(s2, "off") ELSE s2

\* playNext() that arms every timer for one dot, whatever the entry's duration
playNextFixedDelay(s) ==
    IF ~s.isPlaying \/ s.currentIndex >= Len(s.sequence)
    THEN LET s1 == stop(s) IN
         IF s1.completeCallback.kind # "undefined" THEN Call(s1, "complete") ELSE s1
    ELSE LET current == s.sequence[s.currentIndex + 1]
             s1 == IF current.type = "on" /\ s.onCallback.kind # "undefined"
                   THEN Call(s, "on")
                   ELSE IF current.type = "off" /\ s.offCallback.kind # "undefined"
                   THEN Call(s, "off")
                   ELSE s
         IN  setTimeout(s1, DOT_DURATION)

\* playNext() that reports the end of the sequence without calling stop()
playNextWithoutStop(s) ==
    IF ~s.isPlaying \/ s.currentIndex >= Len(s.sequence)
    THEN IF s.completeCallback.kind # "undefined" THEN Call(s, "complete") ELSE s
    ELSE LET current == s.sequence[s.currentIndex + 1]
             s1 == IF current.type = "on" /\ s.onCallback.kind # "undefined"
                   THEN Call(s, "on")
                   ELSE IF current.type = "off" /\ s.offCallback.kind # "undefined"
                   THEN Call(s, "off")
                   ELSE s
         IN  setTimeout(s1, current.duration)

\* MorseController.playNext
playNext(s) ==
    IF ~s.isPlaying \/ s.currentIndex >= Len(s.sequence)
    THEN LET s1 == stop(s) IN
         IF s1.completeCallback.kind # "undefined" THEN Call(s1, "complete") ELSE s1
    ELSE LET current == s.sequence[s.currentIndex + 1]
             s1 == IF current.type = "on" /\ s.onCallback.kind # "undefined"
                   THEN Call(s, "on")
                   ELSE IF current.type = "off" /\ s.offCallback.kind # "undefined"
                   THEN Call(s, "off")
                   ELSE s
         IN  setTimeout(s1, current.duration)

\* MorseController.play
play(s, txt, onCb, offCb, completeCb) ==
    LET s1 == IF s.isPlaying THEN stop(s) ELSE s
        s2 == [s1 EXCEPT !.sequence = parseSequence(txt),
                         !.currentIndex = 0,
                         !.isPlaying = TRUE,
                         !.onCallback = onCb,
                         !.offCallback = offCb,
                         !.completeCallback = completeCb,
                         !.text = txt, !.log = <<>>, !.completions = 0,
                         !.elapsed = 0, !.stamps = <<>>,
                         !.stopCalled = FALSE, !.lateCallback = FALSE]
    IN  playNext(s2)

\* the constructor
InitController ==
    /\ isPlaying = FALSE
    /\ currentTimeout = NULL
    /\ sequence = <<>>
    /\ currentIndex = 0
    /\ onCallback = Closure("undefined", <<>>)
    /\ offCallback = Closure("undefined", <<>>)
    /\ completeCallback = Closure("undefined", <<>>)
    /\ timers = <<>>
    /\ brightness = FULL
    /\ log = <<>>
    /\ text = <<>>
    /\ plays = 0
    /\ completions = 0
    /\ replaced = FALSE
    /\ stopCalled = FALSE
    /\ stopsInRow = 0
    /\ lateCallback = FALSE
    /\ elapsed = 0
    /\ stamps = <<>>

\* the page calls play(txt, on, off, complete) with fresh closures
PagePlayWith(txt, onCb, offCb, replay) ==
    /\ plays < MaxPlays
    /\ plays' = plays + 1
    /\ replaced' = isPlaying
    /\ stopsInRow' = 0
    /\ Commit(play(World(FALSE), txt, Closure(onCb, replay), Closure(offCb, replay),
                   Closure("plain", <<>>)))

\* play() with callbacks that only set the brightness
PagePlay ==
    \E txt \in CtlTexts : PagePlayWith(txt, "plain", "plain", <<>>)

\* play() with an on-callback or off-callback that calls stop() when it first runs
PagePlayStopping ==
    \E txt \in CtlTexts :
        \/ PagePlayWith(txt, "stop", "plain", <<>>)
        \/ PagePlayWith(txt, "plain", "stop", <<>>)

\* play() with an on-callback or off-callback that calls play() when it first runs
PagePlayReplaying ==
    \E txt \in CtlTexts, replay \in ReplayTexts :
        \/ PagePlayWith(txt, "play", "plain", replay)
        \/ PagePlayWith(txt, "plain", "play", replay)

\* the page calls stop()
PageStop ==
    /\ stopsInRow < MaxStopsInRow
    /\ stopsInRow' = stopsInRow + 1
    /\ replaced' = FALSE
    /\ plays' = plays
    /\ Commit(stop([World(FALSE) EXCEPT !.stopCalled = TRUE]))

\* the oldest pending timer that is due fires: the arrow function of playNext
TimerFires ==
    \E i \in 1..Len(timers) :
        /\ timers[i].left = 0
        /\ \A j \in 1..(i - 1) : timers[j].left # 0
        /\ LET s == [World(stopCalled) EXCEPT
                        !.timers = SubSeq(@, 1, i - 1) \o SubSeq(@, i + 1, Len(@)),
                        !.currentIndex = @ + 1]
           IN  Commit(playNext(s))
        /\ stopsInRow' = 0
        /\ UNCHANGED <<plays, replaced>>

\* time passes while no pending timer is due
Tick ==
    /\ timers # <<>>
    /\ \A i \in 1..Len(timers) : timers[i].left > 0
    /\ timers' = [i \in 1..Len(timers) |->
                     [timers[i] EXCEPT !.left = @ - DOT_DURATION]]
    /\ elapsed' = elapsed + DOT_DURATION
    /\ UNCHANGED <<isPlaying, currentTimeout, sequence, currentIndex, onCallback,
                   offCallback, completeCallback, brightness,
                   log, text, plays, completions, replaced, stopCalled,
                   stopsInRow, lateCallback, stamps>>


(***************************************************************************)
(* The canvas page's sensors (src/app.js).  Latitudes and longitudes are   *)
(* in ten-thousandths of a degree, angles of the orientation and of the    *)
(* sky in whole degrees.  A value that may be null is Unset or Val(v).     *)
(***************************************************************************)
Unset == <<>>
Val(v) == <<v>>

CANVAS_DEFAULT_LATITUDE == 407128
CANVAS_DEFAULT_LONGITUDE == -740060
FOV == 60

\* the positions a geolocation success reports
Positions == {[latitude |-> 515074, longitude |-> -1278]}

\* the fields of a deviceorientation event, each null or a number
OrientationEvents ==
    [alpha : {Unset, Val(10)}, beta : {Unset, Val(60)}, gamma : {Unset, Val(5)}]

\* the altitude and azimuth calculateStarPosition finds for the star: they depend
\* on the clock, the star staying within two degrees of the pole
SkyPositions ==
    {[altitude |-> 41, azimuth |-> 359], [altitude |-> 52, azimuth |-> 1]}

Abs(x) == IF x < 0 THEN -x ELSE x

\* value || 0
OrZero(value) == IF value = Unset \/ value = Val(0) THEN 0 ELSE value[1]

\* handleOrientation: the object it leaves in deviceOrientation
handleOrientation(event) ==
    [alpha |-> OrZero(event.alpha), beta |-> OrZero(event.beta),
     gamma |-> OrZero(event.gamma)]

\* calculateStarPosition that computes a position whatever the latitude
calculateStarPositionUnchecked(location, sky) == Val(sky)

\* calculateStarPosition: null without a latitude, else the altitude and azimuth
\* of the star at the time of the call
calculateStarPosition(location, sky) ==
    IF location.latitude = Unset THEN Unset ELSE Val(sky)

\* getScreenPosition that compares with the whole field of view
getScreenPositionWholeFov(altitude, azimuth, orientation) ==
    LET compassHeading == orientation.alpha
        tilt == orientation.beta
        difference == azimuth - compassHeading
        wrapped == IF difference > 180 THEN difference - 360 ELSE difference
        relativeAzimuth == IF wrapped < -180 THEN wrapped + 360 ELSE wrapped
        relativeAltitude == altitude - (90 - tilt)
    IN  IF Abs(relativeAzimuth) > FOV \/ Abs(relativeAltitude) > FOV
        THEN Unset
        ELSE Val([x |-> FOV \div 2 + relativeAzimuth,
                  y |-> FOV \div 2 - relativeAltitude])

\* getScreenPosition: null when the target is outside the field of view, else
\* its place on the canvas, x in sixtieths of the canvas width from the left
\* and y in sixtieths of the canvas height from the top
getScreenPosition(altitude, azimuth, orientation) ==
    LET compassHeading == orientation.alpha
        tilt == orientation.beta
        difference == azimuth - compassHeading
        wrapped == IF difference > 180 THEN difference - 360 ELSE difference
        relativeAzimuth == IF wrapped < -180 THEN wrapped + 360 ELSE wrapped
        relativeAltitude == altitude - (90 - tilt)
    IN  IF Abs(relativeAzimuth) > FOV \div 2 \/ Abs(relativeAltitude) > FOV \div 2
        THEN Unset
        ELSE Val([x |-> FOV \div 2 + relativeAzimuth,
                  y |-> FOV \div 2 - relativeAltitude])

\* the sensors' state when the script has run, in a browser with geolocation
\* that asks for the motion permission
InitSensors ==
    /\ sensorsOn = FALSE
    /\ geolocation = "available"
    /\ permissionNeeded = TRUE
    /\ pendingPermission = 0
    /\ initSensorsCalls = 0
    /\ geoPending = 0
    /\ permissionHidden = FALSE
    /\ clicks = 0
    /\ locationData = [latitude |-> Unset, longitude |-> Unset]
    /\ deviceOrientation = [alpha |-> 0, beta |-> 0, gamma |-> 0]
    /\ orientationEvent = Unset
    /\ prevOrientation = [alpha |-> 0, beta |-> 0, gamma |-> 0]
    /\ frame = Unset

\* the same, in a browser with or without navigator.geolocation, and with or
\* without DeviceOrientationEvent.requestPermission
InitSensorsAnyBrowser ==
    /\ sensorsOn = FALSE
    /\ geolocation \in {"available", "unsupported"}
    /\ permissionNeeded \in BOOLEAN
    /\ pendingPermission = 0
    /\ initSensorsCalls = 0
    /\ geoPending = 0
    /\ permissionHidden = FALSE
    /\ clicks = 0
    /\ locationData = [latitude |-> Unset, longitude |-> Unset]
    /\ deviceOrientation = [alpha |-> 0, beta |-> 0, gamma |-> 0]
    /\ orientationEvent = Unset
    /\ prevOrientation = [alpha |-> 0, beta |-> 0, gamma |-> 0]
    /\ frame = Unset

\* getScreenPosition applied to a target, for a heading and a tilt
InitProjection ==
    /\ targetAltitude = 0
    /\ targetAzimuth = 0
    /\ projected = FALSE
    /\ projection = Unset

Altitudes == {5, 50, 65, 90}
Azimuths == {0, 20, 40, 200, 340}
Headings == {0, 30, 350}
Tilts == {0, 30, 90}

InitProjectionInputs ==
    /\ targetAltitude \in Altitudes
    /\ targetAzimuth \in Azimuths
    /\ projected = FALSE
    /\ projection = Unset

GetScreenPosition ==
    /\ ~projected
    /\ projected' = TRUE
    /\ projection' = getScreenPosition(targetAltitude, targetAzimuth, deviceOrientation)
    /\ UNCHANGED <<targetAltitude, targetAzimuth>>

(***************************************************************************)
(* The canvas page (src/app.js).                                           *)
(***************************************************************************)
\* 0.9 + Math.sin(starPulse) * 0.1 in thousandths, to the nearest one, with
\* starPulse counted in steps of 0.02 (exact for fewer than 16 steps)
Twinkle(pulse) == 900 + 2 * pulse

Canvas ==
    [morseQueue |-> morseQueue, isMorseBlinking |-> isMorseBlinking,
     starOpacity |-> starOpacity, canvasTimers |-> canvasTimers,
     entryLeft |-> entryLeft, entryCut |-> entryCut]

CommitCanvas(c) ==
    /\ morseQueue' = c.morseQueue
    /\ isMorseBlinking' = c.isMorseBlinking
    /\ starOpacity' = c.starOpacity
    /\ canvasTimers' = c.canvasTimers
    /\ entryLeft' = c.entryLeft
    /\ entryCut' = c.entryCut

\* processMorseQueue
processMorseQueue(c) ==
    LET cut == c.entryCut \/ c.entryLeft > 0 IN
    IF Len(c.morseQueue) = 0
    THEN [c EXCEPT !.isMorseBlinking = FALSE,
                   !.starOpacity = FULL,
                   !.entryCut = cut]
    ELSE LET signal == Head(c.morseQueue) IN
         [c EXCEPT !.morseQueue = Tail(@),
                   !.starOpacity = IF signal.type = "on" THEN FULL ELSE DARK,
                   !.canvasTimers = Append(@, signal.duration),
                   !.entryLeft = signal.duration,
                   !.entryCut = cut]

\* startMorseCode
startMorseCode(c, txt) ==
    processMorseQueue([c EXCEPT !.morseQueue = buildMorseQueue(txt),
                                !.isMorseBlinking = TRUE,
                                !.entryLeft = 0, !.entryCut = FALSE])

\* the state of the page when its script has run
InitCanvas ==
    /\ morseQueue = <<>>
    /\ isMorseBlinking = FALSE
    /\ starOpacity = FULL
    /\ starPulse = 0
    /\ canvasTimers = <<>>
    /\ runs = 0
    /\ entryLeft = 0
    /\ entryCut = FALSE
    /\ lastWriter = "init"

\* the page sends a text
StartMorseCode ==
    \E txt \in CanvasTexts :
        /\ runs < MaxRuns
        /\ runs' = runs + 1
        /\ CommitCanvas(startMorseCode(Canvas, txt))
        /\ lastWriter' = "morse"
        /\ UNCHANGED starPulse

\* the oldest pending timer that is due fires: () => processMorseQueue()
ProcessTimerFires ==
    \E i \in 1..Len(canvasTimers) :
        /\ canvasTimers[i] = 0
        /\ \A j \in 1..(i - 1) : canvasTimers[j] # 0
        /\ CommitCanvas(processMorseQueue(
               [Canvas EXCEPT !.canvasTimers =
                   SubSeq(@, 1, i - 1) \o SubSeq(@, i + 1, Len(@))]))
        /\ lastWriter' = "morse"
        /\ UNCHANGED <<starPulse, runs>>

\* the body of animate: one frame; sky is where the clock puts the star
animate ==
    /\ IF ~isMorseBlinking
       THEN /\ starPulse' = starPulse + 1
            /\ starOpacity' = Twinkle(starPulse + 1)
            /\ lastWriter' = "twinkle"
       ELSE UNCHANGED <<starPulse, starOpacity, lastWriter>>
    /\ \E sky \in SkyPositions :
           LET starPos == calculateStarPosition(locationData, sky)
               screenPos == IF starPos # Unset
                            THEN getScreenPosition(starPos[1].altitude,
                                                   starPos[1].azimuth,
                                                   deviceOrientation)
                            ELSE Unset
           IN  frame' = Val([starPos |-> starPos, screenPos |-> screenPos,
                             drawStar |-> starPos # Unset /\ screenPos # Unset])

\* initSensors: the location request, where the browser has geolocation, the
\* deviceorientation listener (registering the same function again adds
\* nothing), and animate(), which draws a frame at once and starts one more
\* animation loop
initSensors ==
    /\ isMorseBlinking \/ starPulse < MaxFrames
    /\ initSensorsCalls' = initSensorsCalls + 1
    /\ IF geolocation = "unsupported"
       THEN UNCHANGED <<geolocation, geoPending>>
       ELSE /\ geoPending' = geoPending + 1
            /\ geolocation' = IF geolocation = "available" THEN "pending"
                              ELSE geolocation
    /\ sensorsOn' = TRUE
    /\ animate

\* the click on the enable button, up to the await of the permission request
\* where there is one, and the whole handler where there is none
EnableClick ==
    /\ clicks < MaxClicks
    /\ clicks' = clicks + 1
    /\ IF permissionNeeded
       THEN /\ pendingPermission' = pendingPermission + 1
            /\ UNCHANGED <<sensorsOn, geolocation, geoPending, initSensorsCalls,
                           permissionHidden, frame, starPulse, starOpacity,
                           lastWriter>>
       ELSE /\ initSensors
            /\ permissionHidden' = TRUE
            /\ UNCHANGED pendingPermission
    /\ UNCHANGED <<permissionNeeded, locationData, deviceOrientation,
                   orientationEvent, prevOrientation>>
    /\ UNCHANGED <<morseQueue, isMorseBlinking, canvasTimers, runs, entryLeft,
                   entryCut>>

\* a permission request settles and the click handler resumes: initSensors on
\* 'granted', nothing on another answer, an alert when the request throws
EnablePermissionSettles ==
    /\ pendingPermission > 0
    /\ pendingPermission' = pendingPermission - 1
    /\ \E permission \in {"granted", "denied", "throws"} :
           IF permission = "granted"
           THEN initSensors /\ permissionHidden' = TRUE
           ELSE UNCHANGED <<sensorsOn, geolocation, geoPending, initSensorsCalls,
                            permissionHidden, frame, starPulse, starOpacity,
                            lastWriter>>
    /\ UNCHANGED <<permissionNeeded, clicks, locationData, deviceOrientation,
                   orientationEvent, prevOrientation>>
    /\ UNCHANGED <<morseQueue, isMorseBlinking, canvasTimers, runs, entryLeft,
                   entryCut>>

\* the success callback of getCurrentPosition, for one of the requests
LocationSuccess ==
    /\ geoPending > 0
    /\ geoPending' = geoPending - 1
    /\ geolocation' = "success"
    /\ \E position \in Positions :
           locationData' = [latitude |-> Val(position.latitude),
                            longitude |-> Val(position.longitude)]
    /\ UNCHANGED <<sensorsOn, deviceOrientation, orientationEvent,
                   prevOrientation, frame, permissionNeeded, pendingPermission,
                   initSensorsCalls, permissionHidden, clicks>>

\* the error callback of getCurrentPosition, for one of the requests
LocationError ==
    /\ geoPending > 0
    /\ geoPending' = geoPending - 1
    /\ geolocation' = "error"
    /\ locationData' = [latitude |-> Val(CANVAS_DEFAULT_LATITUDE),
                        longitude |-> Val(CANVAS_DEFAULT_LONGITUDE)]
    /\ UNCHANGED <<sensorsOn, deviceOrientation, orientationEvent,
                   prevOrientation, frame, permissionNeeded, pendingPermission,
                   initSensorsCalls, permissionHidden, clicks>>

\* a deviceorientation event reaches the listener
HandleOrientation ==
    /\ sensorsOn
    /\ \E event \in OrientationEvents :
           /\ deviceOrientation' = handleOrientation(event)
           /\ orientationEvent' = Val(event)
           /\ prevOrientation' = deviceOrientation
    /\ UNCHANGED <<sensorsOn, geolocation, locationData, frame, permissionNeeded,
                   pendingPermission, initSensorsCalls, geoPending,
                   permissionHidden, clicks>>

\* a callback of requestAnimationFrame runs animate, once initSensors has
\* started a loop
Animate ==
    /\ sensorsOn
    /\ isMorseBlinking \/ starPulse < MaxFrames
    /\ animate
    /\ UNCHANGED <<morseQueue, isMorseBlinking, canvasTimers, runs, entryLeft,
                   entryCut>>
    /\ UNCHANGED <<sensorsOn, geolocation, locationData, deviceOrientation,
                   orientationEvent, prevOrientation, permissionNeeded,
                   pendingPermission, initSensorsCalls, geoPending,
                   permissionHidden, clicks>>

\* time passes while no pending timer is due
CanvasTick ==
    /\ canvasTimers # <<>>
    /\ \A i \in 1..Len(canvasTimers) : canvasTimers[i] > 0
    /\ canvasTimers' = [i \in 1..Len(canvasTimers) |->
                           canvasTimers[i] - CANVAS_DOT_DURATION]
    /\ entryLeft' = IF entryLeft > 0 THEN entryLeft - CANVAS_DOT_DURATION ELSE 0
    /\ UNCHANGED <<morseQueue, isMorseBlinking, starOpacity, starPulse, runs,
                   entryCut, lastWriter>>

(***************************************************************************)
(* NorthStarViewer in its three variants: src/public/app.js (the star is   *)
(* placed by a calibration), src/unnamed/part_001 and src/unnamed/part_002 *)
(* (the star is placed once, from the first compass reading).  Latitudes,  *)
(* longitudes and the angles of an event are in whole degrees; headings,   *)
(* the declination and the star's bearing are in hundredths of a degree.   *)
(***************************************************************************)
Variants == {"public/app.js", "part_001", "part_002"}
LockOnce == {"part_001", "part_002"}

DEFAULT_LATITUDE == 40
DEFAULT_LONGITUDE == 0
FULL_TURN == 36000

\* the positions a geolocation success reports
ViewerPositions ==
    {[latitude |-> 50, longitude |-> -100], [latitude |-> 35, longitude |-> 139]}

\* the fields of a deviceorientation event the viewer reads
ViewerEvents ==
    [alpha : {Unset, Val(0), Val(90)}, beta : {Unset, Val(0)},
     gamma : {Unset, Val(0)}, webkitCompassHeading : {Unset, Val(270)}]

\* a % b of JavaScript: the remainder has the sign of a
JsRem(a, b) == IF a >= 0 THEN a % b ELSE -((-a) % b)

Min(a, b) == IF a <= b THEN a ELSE b

\* calculateMagneticDeclination that leaves the declaration's 0 outside the bands
calculateMagneticDeclinationNoDefault(latitude, longitude) ==
    LET declination ==
            IF longitude >= -130 /\ longitude <= -70
            THEN (longitude + 100) * 50 - 1000
            ELSE IF longitude >= -10 /\ longitude <= 40
            THEN longitude * 25
            ELSE IF longitude >= 70 /\ longitude <= 150
            THEN (longitude - 110) * 30
            ELSE 0
    IN  declination + (latitude - 45) * 5

\* calculateMagneticDeclination, in hundredths of a degree
calculateMagneticDeclination(latitude, longitude) ==
    LET declination ==
            IF longitude >= -130 /\ longitude <= -70
            THEN (longitude + 100) * 50 - 1000
            ELSE IF longitude >= -10 /\ longitude <= 40
            THEN longitude * 25
            ELSE IF longitude >= 70 /\ longitude <= 150
            THEN (longitude - 110) * 30
            ELSE longitude * 10
    IN  declination + (latitude - 45) * 5

\* the constructor, before it calls init(), in a browser that has
\* DeviceOrientationEvent.requestPermission or not (needsPermission) and
\* window.DeviceOrientationEvent or not (hasOrientationEvent); pendingPermission:
\* the permission requests not yet settled; compassValue: the text of the
\* compass element, once written.  The star's attributes are those of
\* the page's markup until the viewer writes them; position stands for the
\* string `x y z`, which is a function of the bearing and the elevation.
constructor(variant, needsPermission, hasOrientationEvent) ==
    [variant |-> variant,
     needsPermission |-> needsPermission,
     hasOrientationEvent |-> hasOrientationEvent,
     pendingPermission |-> 0,
     compassValue |-> Unset,
     hasPermission |-> FALSE,
     userLocation |-> Unset,
     magneticDeclination |-> 0,
     trueHeading |-> Unset,
     magneticHeading |-> Unset,
     starPositioned |-> FALSE,
     polarisElevation |-> Unset,
     calibrationOffset |-> Unset,
     isCalibrating |-> FALSE,
     calibrationHeading |-> Unset,
     starPosition |-> Unset,
     starVisible |-> "markup",
     overlay |-> FALSE,
     listeners |-> 0,
     calibrateListeners |-> 0,
     calibrateOnclick |-> "null",
     calibrateOnclickAt |-> Unset,
     permission |-> "not asked",
     location |-> "pending",
     positionWrites |-> 0,
     lockedStar |-> Unset]

\* the two setAttribute calls of positionPolarisWithCompass; history: the writes
\* of the position, counted up to two
WriteStar(v, bearing) ==
    [v EXCEPT !.starPosition = Val([bearing |-> bearing,
                                    elevation |-> v.polarisElevation[1]]),
              !.starVisible = "true",
              !.positionWrites = Min(@ + 1, 2)]

\* positionPolarisWithCompass of the lock-once variants that leaves
\* starPositioned as it is
positionPolarisKeepsUnlocked(v) ==
    IF v.variant \in LockOnce
    THEN IF v.polarisElevation = Unset \/ v.trueHeading = Unset \/ v.starPositioned
         THEN v
         ELSE LET w == WriteStar(v, -v.trueHeading[1]) IN
              [w EXCEPT !.lockedStar =
                            IF @ = Unset THEN Val(<<w.starPosition, w.starVisible>>)
                            ELSE @]
    ELSE IF v.calibrationOffset = Unset \/ v.polarisElevation = Unset
         THEN v
         ELSE WriteStar(v, v.calibrationOffset[1])

\* positionPolarisWithCompass.  part_001 takes the azimuth -trueHeading and
\* x = d cos(e) sin(azimuth); part_002 takes the azimuth trueHeading and
\* x = -d cos(e) sin(azimuth): the same position, of bearing -trueHeading.
\* History: what the star was when it was locked.
positionPolarisWithCompass(v) ==
    IF v.variant \in LockOnce
    THEN IF v.polarisElevation = Unset \/ v.trueHeading = Unset \/ v.starPositioned
         THEN v
         ELSE LET w == WriteStar(v, -v.trueHeading[1]) IN
              [w EXCEPT !.starPositioned = TRUE,
                        !.lockedStar =
                            IF @ = Unset THEN Val(<<w.starPosition, w.starVisible>>)
                            ELSE @]
    ELSE IF v.calibrationOffset = Unset \/ v.polarisElevation = Unset
         THEN v
         ELSE WriteStar(v, v.calibrationOffset[1])

\* updateNorthStarPosition that stores the elevation and leaves the star alone,
\* in every variant
updateNorthStarPositionElevationOnly(v) ==
    LET v1 == IF v.userLocation = Unset
              THEN [v EXCEPT !.userLocation =
                        Val([latitude |-> DEFAULT_LATITUDE,
                             longitude |-> DEFAULT_LONGITUDE])]
              ELSE v
    IN  [v1 EXCEPT !.polarisElevation = Val(v1.userLocation[1].latitude)]

\* updateNorthStarPosition
updateNorthStarPosition(v) ==
    LET v1 == IF v.userLocation = Unset
              THEN [v EXCEPT !.userLocation =
                        Val([latitude |-> DEFAULT_LATITUDE,
                             longitude |-> DEFAULT_LONGITUDE])]
              ELSE v
        v2 == [v1 EXCEPT !.polarisElevation = Val(v1.userLocation[1].latitude)]
    IN  IF v2.variant \in LockOnce /\ v2.trueHeading # Unset
        THEN positionPolarisWithCompass(v2)
        ELSE v2

\* setupCalibration
setupCalibration(v) ==
    [v EXCEPT !.calibrateListeners = @ + 1, !.starVisible = "false"]

\* startTracking
startTracking(v) ==
    LET v1 == IF v.variant = "part_002" THEN v ELSE [v EXCEPT !.overlay = FALSE]
        v2 == IF v1.variant = "public/app.js" THEN setupCalibration(v1) ELSE v1
    IN  IF v2.hasOrientationEvent THEN [v2 EXCEPT !.listeners = @ + 1] ELSE v2

\* init(), with the location request left pending
init(v) ==
    IF v.needsPermission
    THEN [v EXCEPT !.overlay = TRUE]
    ELSE startTracking([v EXCEPT !.permission = "not needed"])

\* the click on the permission button, up to the await of requestPermission():
\* setupPermissionRequest's listener; in part_002 the listener calls
\* requestIOSPermission, which runs up to its await, and removes the overlay
permissionClick(v) ==
    LET v1 == [v EXCEPT !.pendingPermission = @ + 1] IN
    IF v1.variant = "part_002" THEN [v1 EXCEPT !.overlay = FALSE] ELSE v1

\* a request settles with a response and the listener, or requestIOSPermission
\* in part_002, resumes after its await
requestPermission(v, response) ==
    LET v1 == [v EXCEPT !.permission = response, !.pendingPermission = @ - 1] IN
    IF v1.variant = "part_002"
    THEN IF response = "granted"
         THEN startTracking([v1 EXCEPT !.hasPermission = TRUE])
         ELSE startTracking(v1)
    ELSE IF response = "granted"
         THEN startTracking([v1 EXCEPT !.hasPermission = TRUE])
         ELSE v1

DIRECTIONS == <<"N", "NE", "E", "SE", "S", "SW", "W", "NW">>

Max(a, b) == IF a >= b THEN a ELSE b

\* Math.round(heading / 45) for a heading in hundredths of a degree: the nearest
\* integer, a half going up
RoundEighth(heading) == (2 * heading + 4500) \div 9000

\* getCompassDirection of a heading in hundredths of a degree; an index outside
\* the array reads undefined
getCompassDirection(heading) ==
    LET index == JsRem(RoundEighth(heading), 8) IN
    IF index \in 0..7 THEN DIRECTIONS[index + 1] ELSE "undefined"

\* the true heading computed without the added full turn
TrueHeadingNoTurn(v, degrees) ==
    JsRem(degrees * 100 + v.magneticDeclination, FULL_TURN)

\* the true heading for a magnetic heading in degrees
TrueHeading(v, degrees) ==
    JsRem(degrees * 100 + v.magneticDeclination + FULL_TURN, FULL_TURN)

\* NorthStarViewer.handleOrientation
viewerHandleOrientation(v, event) ==
    IF event.alpha # Unset /\ event.beta # Unset /\ event.gamma # Unset
    THEN LET fromAlpha == IF v.variant = "part_002" THEN 360 - event.alpha[1]
                          ELSE event.alpha[1]
             magnetic == IF event.webkitCompassHeading # Unset
                         THEN IF v.variant = "part_002"
                              THEN event.webkitCompassHeading[1]
                              ELSE 360 - event.webkitCompassHeading[1]
                         ELSE fromAlpha
             heading == TrueHeading(v, magnetic)
             v1 == [v EXCEPT !.magneticHeading = Val(magnetic * 100),
                             !.trueHeading = Val(heading),
                             !.compassValue =
                                 IF v.variant = "part_002" THEN @
                                 ELSE Val(getCompassDirection(heading))]
         IN  IF v1.variant \in LockOnce /\ ~v1.starPositioned
             THEN positionPolarisWithCompass(v1)
             ELSE v1
    ELSE v

\* the deviceorientation event goes to each of the n listeners startTracking
\* has registered
RECURSIVE dispatchOrientation(_, _, _)
dispatchOrientation(v, event, n) ==
    IF n = 0 THEN v
    ELSE dispatchOrientation(viewerHandleOrientation(v, event), event, n - 1)

\* startCalibration
startCalibration(v) ==
    [v EXCEPT !.isCalibrating = TRUE, !.calibrateOnclick = "confirmCalibration",
              !.calibrateOnclickAt = IF @ = Unset THEN Val(v.calibrateListeners)
                                     ELSE @]

\* confirmCalibration that takes the heading itself for the offset
confirmCalibrationUnsigned(v) ==
    IF v.trueHeading # Unset
    THEN LET v1 == [v EXCEPT !.calibrationHeading = v.trueHeading,
                             !.calibrationOffset = v.trueHeading]
             v2 == positionPolarisWithCompass(v1)
         IN  [v2 EXCEPT !.calibrateOnclick = "startCalibration",
                        !.calibrateOnclickAt = IF @ = Unset THEN Val(v.calibrateListeners)
                                               ELSE @,
                        !.isCalibrating = FALSE]
    ELSE v

\* confirmCalibration
confirmCalibration(v) ==
    IF v.trueHeading # Unset
    THEN LET v1 == [v EXCEPT !.calibrationHeading = v.trueHeading,
                             !.calibrationOffset = Val(-v.trueHeading[1])]
             v2 == positionPolarisWithCompass(v1)
         IN  [v2 EXCEPT !.calibrateOnclick = "startCalibration",
                        !.calibrateOnclickAt = IF @ = Unset THEN Val(v.calibrateListeners)
                                               ELSE @,
                        !.isCalibrating = FALSE]
    ELSE v

\* the listeners setupCalibration added, n of them, run one after the other
RECURSIVE clickListeners(_, _)
clickListeners(v, n) ==
    IF n = 0 THEN v ELSE clickListeners(startCalibration(v), n - 1)

\* the button's onclick handler runs, as it is when its turn comes
onclickHandler(v) ==
    IF v.calibrateOnclick = "confirmCalibration" THEN confirmCalibration(v)
    ELSE startCalibration(v)

\* a click on the calibrate button: the listeners the button has when the click
\* starts run in the order they were registered, the onclick handler at the
\* place where onclick was first assigned; a handler assigned during the click
\* waits for the next click
calibrateClick(v) ==
    IF v.calibrateOnclickAt = Unset
    THEN clickListeners(v, v.calibrateListeners)
    ELSE LET before == v.calibrateOnclickAt[1]
             v1 == clickListeners(v, before)
             v2 == onclickHandler(v1)
         IN  clickListeners(v2, v.calibrateListeners - before)

\* the page of part_001 on a device that asks for the motion permission
InitViewer ==
    viewer = init(constructor("part_001", TRUE, TRUE))

\* the page of any variant, on a device that asks for the permission or not
InitViewerAny ==
    \E variant \in Variants, needsPermission \in BOOLEAN,
       hasOrientationEvent \in BOOLEAN :
        /\ needsPermission => hasOrientationEvent
        /\ viewer = init(constructor(variant, needsPermission, hasOrientationEvent))

\* the click on the permission button, while the overlay that holds it is shown
PermissionClick ==
    /\ viewer.overlay
    /\ viewer.pendingPermission < MaxClicks
    /\ viewer' = permissionClick(viewer)

\* a permission request settles
PermissionSettles ==
    /\ viewer.pendingPermission > 0
    /\ \E response \in {"granted", "denied", "throws"} :
           viewer' = requestPermission(viewer, response)

\* the success callback of getCurrentPosition and the then() of init()
ViewerLocationSuccess ==
    /\ viewer.location = "pending"
    /\ \E position \in ViewerPositions :
           viewer' = updateNorthStarPosition(
               [viewer EXCEPT
                   !.location = "success",
                   !.userLocation = Val(position),
                   !.magneticDeclination =
                       calculateMagneticDeclination(position.latitude,
                                                    position.longitude)])

\* getUserLocation rejects, for an error of the request or for want of
\* navigator.geolocation, and the catch() of init() runs
ViewerLocationFailure ==
    /\ viewer.location = "pending"
    /\ \E cause \in {"error", "unsupported"} :
           viewer' = updateNorthStarPosition(
               [viewer EXCEPT
                   !.location = cause,
                   !.userLocation = Val([latitude |-> DEFAULT_LATITUDE,
                                         longitude |-> DEFAULT_LONGITUDE])])

\* a deviceorientation event reaches the listeners startTracking registered; the
\* browser sends none when the permission was asked for and never granted
ViewerOrientation ==
    /\ viewer.listeners > 0
    /\ viewer.permission = "not needed" \/ viewer.hasPermission
    /\ \E event \in ViewerEvents :
           viewer' = dispatchOrientation(viewer, event, viewer.listeners)

\* a click on the calibrate button of src/public/app.js
CalibrateClick ==
    /\ viewer.variant = "public/app.js"
    /\ viewer' = calibrateClick(viewer)

\* positions at the ends of the latitudes and of the longitude bands of
\* calculateMagneticDeclination
HeadingPositions ==
    [latitude : {-90, 45, 90}, longitude : {-180, -130, -70, -10, 40, 70, 150, 180}]

\* events with alpha and webkitCompassHeading at the ends of [0, 360] and inside
HeadingEvents ==
    [alpha : {Unset, Val(0), Val(1), Val(180), Val(359), Val(360)},
     beta : {Val(0)}, gamma : {Val(0)},
     webkitCompassHeading : {Unset, Val(0), Val(90), Val(360)}]

\* the success callback of getCurrentPosition, at a position of HeadingPositions
HeadingLocationSuccess ==
    /\ viewer.location = "pending"
    /\ \E position \in HeadingPositions :
           viewer' = updateNorthStarPosition(
               [viewer EXCEPT
                   !.location = "success",
                   !.userLocation = Val(position),
                   !.magneticDeclination =
                       calculateMagneticDeclination(position.latitude,
                                                    position.longitude)])

\* a deviceorientation event of HeadingEvents reaches the listener
HeadingOrientation ==
    /\ viewer.listeners > 0
    /\ viewer.permission = "not needed" \/ viewer.hasPermission
    /\ \E event \in HeadingEvents :
           viewer' = dispatchOrientation(viewer, event, viewer.listeners)

(***************************************************************************)
(* calculateLocalSiderealTime (src/app.js).  JavaScript numbers are IEEE   *)
(* 754 doubles: every operation gives the double nearest to the exact      *)
(* result, ties going to the even significand.  The model computes the     *)
(* same doubles.  A double is the record [neg, man, exp] that stands for   *)
(* (-1)^neg * man * 2^exp, where man is 0 (and exp is 0) or                *)
(* 2^52 <= man < 2^53.  A significand does not fit an integer of the       *)
(* checker, so man is a natural number written in base RADIX, the least    *)
(* significant digit first and the most significant digit not 0; <<>> is 0.*)
(* The magnitudes of this function are far from the largest and the        *)
(* smallest doubles, so exp is unbounded and there are no subnormals.      *)
(***************************************************************************)
DIGIT_BITS == 15
RADIX == 2 ^ DIGIT_BITS
SIGNIFICAND_BITS == 53

\* natural numbers in base RADIX
Digit(a, i) == IF 1 <= i /\ i <= Len(a) THEN a[i] ELSE 0

\* a without the zeros above its most significant digit
Trim(a) ==
    LET used == {i \in 1..Len(a) : a[i] # 0}
    IN  IF used = {} THEN <<>>
        ELSE SubSeq(a, 1, CHOOSE i \in used : \A k \in used : k <= i)

\* a number that fits a machine integer
Natural(n) == Trim(<<n % RADIX, (n \div RADIX) % RADIX, n \div (RADIX * RADIX)>>)

\* a + b: a digit receives a carry when a lower digit overflows and every
\* digit between the two is full
Sum(a, b) ==
    LET t(i) == Digit(a, i) + Digit(b, i)
        Carry(i) == \E j \in 1..(i - 1) :
                        /\ t(j) >= RADIX
                        /\ \A k \in (j + 1)..(i - 1) : t(k) = RADIX - 1
    IN  IF a = <<>> THEN b
        ELSE IF b = <<>> THEN a
        ELSE Trim([i \in 1..(Max(Len(a), Len(b)) + 1) |->
                      (t(i) + IF Carry(i) THEN 1 ELSE 0) % RADIX])

\* a - b, for a >= b: a digit lends when a lower digit falls short and every
\* digit between the two is level
Difference(a, b) ==
    LET Borrow(i) == \E j \in 1..(i - 1) :
                         /\ Digit(a, j) < Digit(b, j)
                         /\ \A k \in (j + 1)..(i - 1) : Digit(a, k) = Digit(b, k)
    IN  IF b = <<>> THEN a
        ELSE Trim([i \in 1..Len(a) |->
                      (Digit(a, i) - Digit(b, i) - (IF Borrow(i) THEN 1 ELSE 0) + RADIX)
                          % RADIX])

\* 1, 0 or -1 as a is greater than, equal to or less than b
Compare(a, b) ==
    LET differ == {i \in 1..Max(Len(a), Len(b)) : Digit(a, i) # Digit(b, i)}
    IN  IF a = b \/ differ = {} THEN 0
        ELSE LET top == CHOOSE i \in differ : \A k \in differ : k <= i
             IN  IF Digit(a, top) > Digit(b, top) THEN 1 ELSE -1

\* a * d, for a digit d
TimesDigit(a, d) ==
    IF a = <<>> \/ d = 0 THEN <<>>
    ELSE Sum([i \in 1..Len(a) |-> (a[i] * d) % RADIX],
             [i \in 1..(Len(a) + 1) |-> (Digit(a, i - 1) * d) \div RADIX])

\* a * b: a times the lowest digit of b, and RADIX times a times the rest
RECURSIVE Product(_, _)
Product(a, b) ==
    IF b = <<>> THEN <<>>
    ELSE Trim(Sum(TimesDigit(a, Head(b)), <<0>> \o Product(a, Tail(b))))

\* the number of binary digits of a
BitLength(a) ==
    LET BitsOf(d) == CHOOSE k \in 1..DIGIT_BITS : d < 2 ^ k /\ d >= 2 ^ (k - 1)
    IN  IF a = <<>> THEN 0 ELSE DIGIT_BITS * (Len(a) - 1) + BitsOf(a[Len(a)])

\* a * 2^s
ShiftLeft(a, s) ==
    LET digits == s \div DIGIT_BITS
        bits == s % DIGIT_BITS
    IN  IF a = <<>> \/ s = 0 THEN a
        ELSE Trim([i \in 1..(Len(a) + digits + 1) |->
                      ((Digit(a, i - digits) * (2 ^ bits)) % RADIX)
                      + (Digit(a, i - digits - 1) \div (2 ^ (DIGIT_BITS - bits)))])

\* a \div 2^s
ShiftRight(a, s) ==
    LET digits == s \div DIGIT_BITS
        bits == s % DIGIT_BITS
    IN  IF a = <<>> \/ s = 0 THEN a
        ELSE Trim([i \in 1..Len(a) |->
                      (Digit(a, i + digits) \div (2 ^ bits))
                      + ((Digit(a, i + digits + 1) % (2 ^ bits))
                             * (2 ^ (DIGIT_BITS - bits)))])

\* the digit of the quotient of r by b, for r < b * RADIX and b with the top
\* binary digit of its top digit set: the two top digits of r over the top
\* digit of b give a digit that is at most 2 too large
QuotientDigit(r, b) ==
    LET n == Len(b)
        estimate == Min(RADIX - 1, (Digit(r, n + 1) * RADIX + Digit(r, n)) \div b[n])
        Largest(fit) == CHOOSE d \in fit : \A k \in fit : k <= d
    IN  Largest({d \in Max(0, estimate - 2)..estimate :
                    Compare(TimesDigit(b, d), r) <= 0})

\* one step of long division: the quotient and remainder of the digits above
\* take one digit more
DivideStep(above, digit, b) ==
    IF above.remainder = <<>> /\ digit = 0
    THEN [quotient |-> IF above.quotient = <<>> THEN <<>> ELSE <<0>> \o above.quotient,
          remainder |-> <<>>]
    ELSE LET r == <<digit>> \o above.remainder
             Take(d) == [quotient |-> Trim(<<d>> \o above.quotient),
                         remainder |-> Difference(r, TimesDigit(b, d))]
         IN  Take(QuotientDigit(r, b))

\* long division: the quotient and the remainder of the digits j, j + 1, ...
\* of a by b; the top digits of a, one fewer than b has, are less than b
RECURSIVE DivideFrom(_, _, _)
DivideFrom(a, b, j) ==
    IF j > Len(a) - Len(b) + 1
    THEN [quotient |-> <<>>, remainder |-> SubSeq(a, j, Len(a))]
    ELSE DivideStep(DivideFrom(a, b, j + 1), a[j], b)

\* the quotient and the remainder of a by b, for b > 0: both are first
\* multiplied by the power of two that sets the top binary digit of the top
\* digit of b
Divide(a, b) ==
    LET s == DIGIT_BITS * Len(b) - BitLength(b)
    IN  IF b = <<1>> THEN [quotient |-> a, remainder |-> <<>>]
        ELSE [DivideFrom(ShiftLeft(a, s), ShiftLeft(b, s), 1)
                  EXCEPT !.remainder = ShiftRight(@, s)]

\* the number a decimal numeral writes, four digits at a time
RECURSIVE FromDecimal(_)
FromDecimal(digits) ==
    LET FromRight(k) == IF k <= Len(digits) THEN digits[Len(digits) + 1 - k] ELSE 0
        lowest == FromRight(1) + 10 * FromRight(2) + 100 * FromRight(3)
                  + 1000 * FromRight(4)
    IN  IF Len(digits) <= 4 THEN Natural(lowest)
        ELSE Sum(TimesDigit(FromDecimal(SubSeq(digits, 1, Len(digits) - 4)), 10000),
                 Natural(lowest))

RECURSIVE PowerOfTen(_)
PowerOfTen(k) ==
    IF k <= 4 THEN <<10 ^ k>> ELSE TimesDigit(PowerOfTen(k - 4), 10000)

\* the double nearest to (-1)^neg * (d.quotient + f) * 2^e, ties to even, for
\* a fraction f, 0 <= f < 1, that is 0 exactly when d.remainder is 0 (and
\* then any d.quotient, or else a d.quotient of more binary digits than the
\* significand holds): the binary digits below the significand are dropped,
\* and the significand goes up by one when the highest of them is set and
\* either something lower is set or left, or the significand is odd
Round(neg, d, e) ==
    LET q == d.quotient
        drop == BitLength(q) - SIGNIFICAND_BITS
        BitSet(k) == (Digit(q, (k \div DIGIT_BITS) + 1) \div (2 ^ (k % DIGIT_BITS))) % 2 = 1
        up == /\ BitSet(drop - 1)
              /\ \/ d.remainder # <<>>
                 \/ \E k \in 0..(drop - 2) : BitSet(k)
                 \/ BitSet(drop)
        Carried(man) ==
            IF BitLength(man) > SIGNIFICAND_BITS
            THEN [neg |-> neg, man |-> ShiftRight(man, 1), exp |-> e + drop + 1]
            ELSE [neg |-> neg, man |-> man, exp |-> e + drop]
        Up(kept) == Carried(IF up THEN Sum(kept, <<1>>) ELSE kept)
    IN  IF q = <<>> THEN [neg |-> neg, man |-> <<>>, exp |-> 0]
        ELSE IF drop <= 0
        THEN [neg |-> neg, man |-> ShiftLeft(q, -drop), exp |-> e + drop]
        ELSE Up(ShiftRight(q, drop))

\* the double nearest to (-1)^neg * (a / b) * 2^e, for b > 0: the quotient
\* is taken to two binary digits or more beyond the significand
Nearest(neg, a, b, e) ==
    LET s == Max(0, SIGNIFICAND_BITS + 2 - (BitLength(a) - BitLength(b)))
    IN  Round(neg, Divide(ShiftLeft(a, s), b), e - s)

\* an integer as a double
Integer(n) == Round(n < 0, [quotient |-> Natural(Abs(n)), remainder |-> <<>>], 0)

\* a decimal numeral as a double: the decimal digits before and after the point
Literal(neg, whole, fraction) ==
    Nearest(neg, FromDecimal(whole \o fraction), PowerOfTen(Len(fraction)), 0)

\* x * y, x / y (for y # 0), x + y and x % y (for y # 0) on doubles
Mul(x, y) ==
    Round(x.neg # y.neg,
          [quotient |-> Product(x.man, y.man), remainder |-> <<>>], x.exp + y.exp)

Div(x, y) == Nearest(x.neg # y.neg, x.man, y.man, x.exp - y.exp)

\* the sum of two zeros is -0 when both are; a sum that cancels is +0
Add(x, y) ==
    IF x.man = <<>> /\ y.man = <<>> THEN [x EXCEPT !.neg = x.neg /\ y.neg]
    ELSE IF x.man = <<>> THEN y
    ELSE IF y.man = <<>> THEN x
    ELSE LET e == Min(x.exp, y.exp)
             a == ShiftLeft(x.man, x.exp - e)
             b == ShiftLeft(y.man, y.exp - e)
             c == Compare(a, b)
         IN  Round(IF x.neg = y.neg \/ c > 0 THEN x.neg ELSE c < 0 /\ y.neg,
                   [quotient |-> IF x.neg = y.neg THEN Sum(a, b)
                                 ELSE IF c >= 0 THEN Difference(a, b)
                                 ELSE Difference(b, a),
                    remainder |-> <<>>],
                   e)

\* the remainder has the sign of x and is exact
Rem(x, y) ==
    IF x.man = <<>> THEN x
    ELSE LET e == Min(x.exp, y.exp)
         IN  Round(x.neg,
                   [quotient |-> Divide(ShiftLeft(x.man, x.exp - e),
                                        ShiftLeft(y.man, y.exp - e)).remainder,
                    remainder |-> <<>>],
                   e)

\* x < 0
Negative(x) == x.neg /\ x.man # <<>>

\* the numerals of the function
GMST_AT_J2000 == Literal(FALSE, <<1, 8>>, <<6, 9, 7, 3, 7, 4, 5, 5, 8>>)
GMST_PER_DAY == Literal(FALSE, <<2, 4>>, <<0, 6, 5, 7, 0, 9, 8, 2, 4, 4, 1, 9, 0, 8>>)
SIDEREAL_RATIO == Literal(FALSE, <<1>>, <<0, 0, 2, 7, 3, 7, 9, 0, 9, 3, 5>>)
MS_PER_DAY == 1000 * 60 * 60 * 24

\* a Date is its time in milliseconds after J2000, 2000-01-01T12:00:00Z, which
\* is 12 hours into its day of the UTC calendar
MS_INTO_DAY_AT_J2000 == 12 * 60 * 60 * 1000
getUTCHours(date) == ((date + MS_INTO_DAY_AT_J2000) % MS_PER_DAY) \div 3600000
getUTCMinutes(date) == ((date + MS_INTO_DAY_AT_J2000) % 3600000) \div 60000
getUTCSeconds(date) == ((date + MS_INTO_DAY_AT_J2000) % 60000) \div 1000

\* calculateLocalSiderealTime
calculateLocalSiderealTime(date, longitude) ==
    LET daysSinceJ2000 == Div(Integer(date), Integer(MS_PER_DAY))
        GMST == Add(GMST_AT_J2000, Mul(GMST_PER_DAY, daysSinceJ2000))
        hours == Add(Add(Integer(getUTCHours(date)),
                         Div(Integer(getUTCMinutes(date)), Integer(60))),
                     Div(Integer(getUTCSeconds(date)), Integer(3600)))
        hoursSinceJ2000 == Mul(hours, SIDEREAL_RATIO)
        LST == Rem(Add(Add(GMST, hoursSinceJ2000), Div(longitude, Integer(15))),
                   Integer(24))
    IN  IF Negative(LST) THEN Add(LST, Integer(24)) ELSE LST

\* dates before and after the epoch, in milliseconds from it: 1999-12-31T12:00:00Z,
\* 1999-12-09T12:00:00Z, 2000-01-01T00:00:00Z, the millisecond before the epoch,
\* the epoch, the millisecond after it, 2000-01-01T13:02:03Z,
\* 2000-01-02T11:59:59Z and 2000-01-24T15:33:20Z
SiderealDates ==
    {-86400000, -1987200000, -43200000, -1, 0, 1, 3723000, 86399000, 2000000000}

\* longitudes from -180 to 180 degrees
SiderealLongitudes ==
    {Literal(TRUE, <<1, 8, 0>>, <<>>),
     Literal(TRUE, <<1, 2, 2>>, <<4, 1, 9, 4>>),
     Literal(TRUE, <<9, 9>>, <<9, 6, 7, 7, 9, 4, 6, 8, 6, 7, 1, 3, 8>>),
     Literal(TRUE, <<7, 4>>, <<0, 0, 6>>),
     Literal(TRUE, <<1, 5>>, <<>>),
     Literal(TRUE, <<0>>, <<1, 2, 7, 8>>),
     Literal(FALSE, <<0>>, <<>>),
     Literal(FALSE, <<0>>, <<1>>),
     Literal(FALSE, <<2>>, <<3, 5, 2, 2>>),
     Literal(FALSE, <<1, 5>>, <<>>),
     Literal(FALSE, <<9, 9>>, <<9, 6, 7, 7, 9, 4, 6, 8, 6, 7, 1, 3, 8>>),
     Literal(FALSE, <<1, 3, 9>>, <<6, 9, 1, 7>>),
     Literal(FALSE, <<1, 8, 0>>, <<>>)}

(***************************************************************************)
(* The desktop controls of the viewer: the keydown listener of             *)
(* setupKeyboardControls.  The camera's angles are in degrees.             *)
(***************************************************************************)
Keys == {"ArrowUp", "ArrowDown", "ArrowLeft", "ArrowRight", "g"}

\* the keydown listener
KeyDown ==
    \E key \in Keys :
        /\ key = "ArrowLeft" => rotation.y + 5 <= MaxTurns * 5
        /\ key = "ArrowRight" => rotation.y - 5 >= -(MaxTurns * 5)
        /\ IF ~isIOS
           THEN LET turned ==
                        IF key = "ArrowUp"
                        THEN [rotation EXCEPT !.x = Min(@ + 5, 90)]
                        ELSE IF key = "ArrowDown"
                        THEN [rotation EXCEPT !.x = Max(@ - 5, -90)]
                        ELSE IF key = "ArrowLeft"
                        THEN [rotation EXCEPT !.y = @ + 5]
                        ELSE IF key = "ArrowRight"
                        THEN [rotation EXCEPT !.y = @ - 5]
                        ELSE rotation
                IN  /\ rotation' = turned
                    /\ gridVisible' = IF key = "g" THEN ~gridVisible ELSE gridVisible
                    /\ viewer' =
                           IF viewer.variant = "part_002" THEN viewer
                           ELSE [viewer EXCEPT !.compassValue =
                                    Val(getCompassDirection(
                                            JsRem(turned.y, 360) * 100))]
           ELSE UNCHANGED <<rotation, gridVisible, viewer>>
        /\ UNCHANGED <<isIOS, declVars, lstVars>>

\* the functions applied to their arguments; the page on a device that is not
\* a desktop
InitCalc ==
    /\ declLatitude = 0
    /\ declLongitude = 0
    /\ declResult = Unset
    /\ lstDate = 0
    /\ lstLongitude = Integer(0)
    /\ lstResult = Unset
    /\ isIOS = TRUE
    /\ rotation = [x |-> 0, y |-> 0]
    /\ gridVisible = TRUE

InitCalcSidereal ==
    /\ declLatitude = 0
    /\ declLongitude = 0
    /\ declResult = Unset
    /\ lstDate \in SiderealDates
    /\ lstLongitude \in SiderealLongitudes
    /\ lstResult = Unset
    /\ isIOS = TRUE
    /\ rotation = [x |-> 0, y |-> 0]
    /\ gridVisible = TRUE

CalculateLocalSiderealTime ==
    /\ lstResult = Unset
    /\ lstResult' = Val(calculateLocalSiderealTime(lstDate, lstLongitude))
    /\ UNCHANGED <<lstDate, lstLongitude, declVars, keyVars>>

DeclLatitudes == {-90, -45, 0, 45, 90}
DeclLongitudes ==
    {-180, -131, -130, -100, -70, -69, -11, -10, 0, 40, 41, 69, 70, 110, 150, 151, 180}

InitCalcDeclination ==
    /\ declLatitude \in DeclLatitudes
    /\ declLongitude \in DeclLongitudes
    /\ declResult = Unset
    /\ lstDate = 0
    /\ lstLongitude = Integer(0)
    /\ lstResult = Unset
    /\ isIOS = TRUE
    /\ rotation = [x |-> 0, y |-> 0]
    /\ gridVisible = TRUE

CalculateMagneticDeclination ==
    /\ declResult = Unset
    /\ declResult' = Val(calculateMagneticDeclination(declLatitude, declLongitude))
    /\ UNCHANGED <<declLatitude, declLongitude, lstVars, keyVars>>

(***************************************************************************)
(* The pure encoders applied to a text.                                    *)
(***************************************************************************)
InitParse ==
    /\ pText = <<>>
    /\ pParsed = FALSE
    /\ pSequence = <<>>
    /\ pQueued = FALSE
    /\ pQueue = <<>>

InitParseInputs ==
    /\ pText \in Texts
    /\ pParsed = FALSE
    /\ pSequence = <<>>
    /\ pQueued = FALSE
    /\ pQueue = <<>>

\* MorseController.parseSequence(pText)
ParseSequence ==
    /\ ~pParsed
    /\ pParsed' = TRUE
    /\ pSequence' = parseSequence(pText)
    /\ UNCHANGED <<pText, pQueued, pQueue>>

\* the queue startMorseCode(pText) builds
BuildMorseQueue ==
    /\ ~pQueued
    /\ pQueued' = TRUE
    /\ pQueue' = buildMorseQueue(pText)
    /\ UNCHANGED <<pText, pParsed, pSequence>>

(***************************************************************************)
(* Specifications.                                                         *)
(***************************************************************************)
\* the controller, called by the page with callbacks that only set the brightness
NextPage ==
    \/ (PagePlay /\ UNCHANGED <<canvasVars, sensorVars, parseVars, projVars, viewerVars, calcVars>>)
    \/ (PageStop /\ UNCHANGED <<canvasVars, sensorVars, parseVars, projVars, viewerVars, calcVars>>)
    \/ (TimerFires /\ UNCHANGED <<canvasVars, sensorVars, parseVars, projVars, viewerVars, calcVars>>)
    \/ (Tick /\ UNCHANGED <<canvasVars, sensorVars, parseVars, projVars, viewerVars, calcVars>>)

Init ==
    InitController /\ InitCanvas /\ InitSensors /\ InitParse /\ InitProjection
    /\ InitViewer
    /\ InitCalc

SpecPage == Init /\ [][NextPage]_vars

\* the controller, with callbacks that may call back into it
Next ==
    \/ (PagePlay /\ UNCHANGED <<canvasVars, sensorVars, parseVars, projVars, viewerVars, calcVars>>)
    \/ (PagePlayStopping /\ UNCHANGED <<canvasVars, sensorVars, parseVars, projVars, viewerVars, calcVars>>)
    \/ (PagePlayReplaying /\ UNCHANGED <<canvasVars, sensorVars, parseVars, projVars, viewerVars, calcVars>>)
    \/ (PageStop /\ UNCHANGED <<canvasVars, sensorVars, parseVars, projVars, viewerVars, calcVars>>)
    \/ (TimerFires /\ UNCHANGED <<canvasVars, sensorVars, parseVars, projVars, viewerVars, calcVars>>)
    \/ (Tick /\ UNCHANGED <<canvasVars, sensorVars, parseVars, projVars, viewerVars, calcVars>>)

Spec == Init /\ [][Next]_vars

\* the canvas page's script has run, in any browser
InitAnyBrowser ==
    InitController /\ InitCanvas /\ InitSensorsAnyBrowser /\ InitParse /\ InitProjection
    /\ InitViewer
    /\ InitCalc

\* the canvas page
NextCanvas ==
    \/ (StartMorseCode /\ UNCHANGED <<ctlVars, sensorVars, parseVars, projVars, viewerVars, calcVars>>)
    \/ (ProcessTimerFires /\ UNCHANGED <<ctlVars, sensorVars, parseVars, projVars, viewerVars, calcVars>>)
    \/ (Animate /\ UNCHANGED <<ctlVars, parseVars, projVars, viewerVars, calcVars>>)
    \/ (CanvasTick /\ UNCHANGED <<ctlVars, sensorVars, parseVars, projVars, viewerVars, calcVars>>)
    \/ (EnableClick /\ UNCHANGED <<ctlVars, parseVars, projVars, viewerVars, calcVars>>)
    \/ (EnablePermissionSettles /\ UNCHANGED <<ctlVars, parseVars, projVars, viewerVars, calcVars>>)

SpecCanvas == InitAnyBrowser /\ [][NextCanvas]_vars

\* the encoders on every text of the bounded set
NextParse ==
    \/ (ParseSequence /\ UNCHANGED <<ctlVars, canvasVars, sensorVars, projVars, viewerVars, calcVars>>)
    \/ (BuildMorseQueue /\ UNCHANGED <<ctlVars, canvasVars, sensorVars, projVars, viewerVars, calcVars>>)

InitInputs ==
    InitController /\ InitCanvas /\ InitSensors /\ InitParseInputs /\ InitProjection
    /\ InitViewer
    /\ InitCalc

SpecParse == InitInputs /\ [][NextParse]_vars

\* the canvas page's sensors and its animation loop, with no Morse run
NextSensors ==
    \/ (EnableClick /\ UNCHANGED <<ctlVars, parseVars, projVars, viewerVars, calcVars>>)
    \/ (EnablePermissionSettles /\ UNCHANGED <<ctlVars, parseVars, projVars, viewerVars, calcVars>>)
    \/ (LocationSuccess /\ UNCHANGED <<ctlVars, canvasVars, parseVars, projVars, viewerVars, calcVars>>)
    \/ (LocationError /\ UNCHANGED <<ctlVars, canvasVars, parseVars, projVars, viewerVars, calcVars>>)
    \/ (HandleOrientation /\ UNCHANGED <<ctlVars, canvasVars, parseVars, projVars, viewerVars, calcVars>>)
    \/ (Animate /\ UNCHANGED <<ctlVars, parseVars, projVars, viewerVars, calcVars>>)

SpecSensors == InitAnyBrowser /\ [][NextSensors]_vars

\* getScreenPosition on every target, heading and tilt of the bounded sets
NextProjection ==
    (GetScreenPosition /\ UNCHANGED <<ctlVars, canvasVars, sensorVars, parseVars, viewerVars, calcVars>>)

\* the canvas page after the click on the enable button where no permission is
\* asked (initSensors has run and drawn its frame) and one orientation event
InitTargets ==
    /\ InitController /\ InitParse /\ InitProjectionInputs
    /\ InitViewer /\ InitCalc
    /\ morseQueue = <<>> /\ isMorseBlinking = FALSE /\ canvasTimers = <<>>
    /\ runs = 0 /\ entryLeft = 0 /\ entryCut = FALSE
    /\ starPulse = 1 /\ starOpacity = Twinkle(1) /\ lastWriter = "twinkle"
    /\ sensorsOn = TRUE
    /\ geolocation = "pending"
    /\ permissionNeeded = FALSE /\ pendingPermission = 0
    /\ initSensorsCalls = 1 /\ geoPending = 1
    /\ permissionHidden = TRUE /\ clicks = 1
    /\ locationData = [latitude |-> Unset, longitude |-> Unset]
    /\ \E heading \in Headings, tilt \in Tilts :
           /\ deviceOrientation = [alpha |-> heading, beta |-> tilt, gamma |-> 0]
           /\ orientationEvent = Val([alpha |-> Val(heading), beta |-> Val(tilt),
                                      gamma |-> Val(0)])
    /\ prevOrientation = [alpha |-> 0, beta |-> 0, gamma |-> 0]
    /\ frame = Val([starPos |-> Unset, screenPos |-> Unset, drawStar |-> FALSE])

SpecProjection == InitTargets /\ [][NextProjection]_vars

\* the NorthStarViewer page in each of its variants
NextViewer ==
    \/ (PermissionClick /\ UNCHANGED <<ctlVars, canvasVars, sensorVars, parseVars, projVars, calcVars>>)
    \/ (PermissionSettles /\ UNCHANGED <<ctlVars, canvasVars, sensorVars, parseVars, projVars, calcVars>>)
    \/ (ViewerLocationSuccess /\ UNCHANGED <<ctlVars, canvasVars, sensorVars, parseVars, projVars, calcVars>>)
    \/ (ViewerLocationFailure /\ UNCHANGED <<ctlVars, canvasVars, sensorVars, parseVars, projVars, calcVars>>)
    \/ (ViewerOrientation /\ UNCHANGED <<ctlVars, canvasVars, sensorVars, parseVars, projVars, calcVars>>)
    \/ (CalibrateClick /\ UNCHANGED <<ctlVars, canvasVars, sensorVars, parseVars, projVars, calcVars>>)

InitViewers ==
    InitController /\ InitCanvas /\ InitSensors /\ InitParse /\ InitProjection
    /\ InitViewerAny
    /\ InitCalc

SpecViewer == InitViewers /\ [][NextViewer]_vars

\* the viewer's headings, over the ranges of the readings and of the declination
NextHeading ==
    \/ (HeadingLocationSuccess /\ UNCHANGED <<ctlVars, canvasVars, sensorVars, parseVars, projVars, calcVars>>)
    \/ (ViewerLocationFailure /\ UNCHANGED <<ctlVars, canvasVars, sensorVars, parseVars, projVars, calcVars>>)
    \/ (HeadingOrientation /\ UNCHANGED <<ctlVars, canvasVars, sensorVars, parseVars, projVars, calcVars>>)

InitHeading ==
    /\ InitController /\ InitCanvas /\ InitSensors /\ InitParse /\ InitProjection
    /\ \E variant \in Variants : viewer = init(constructor(variant, FALSE, TRUE))
    /\ InitCalc

SpecHeading == InitHeading /\ [][NextHeading]_vars

\* calculateMagneticDeclination on every position of the bounded sets
NextDeclination ==
    (CalculateMagneticDeclination
        /\ UNCHANGED <<ctlVars, canvasVars, sensorVars, parseVars, projVars, viewerVars>>)

InitDeclination ==
    /\ InitController /\ InitCanvas /\ InitSensors /\ InitParse /\ InitProjection
    /\ InitViewer /\ InitCalcDeclination

SpecDeclination == InitDeclination /\ [][NextDeclination]_vars

\* calculateLocalSiderealTime on every date and longitude of the bounded sets
NextSidereal ==
    (CalculateLocalSiderealTime
        /\ UNCHANGED <<ctlVars, canvasVars, sensorVars, parseVars, projVars, viewerVars>>)

InitSidereal ==
    /\ InitController /\ InitCanvas /\ InitSensors /\ InitParse /\ InitProjection
    /\ InitViewer /\ InitCalcSidereal

SpecSidereal == InitSidereal /\ [][NextSidereal]_vars

\* the desktop controls of the viewer, on a device that asks for no permission
NextKeys ==
    (KeyDown
        /\ UNCHANGED <<ctlVars, canvasVars, sensorVars, parseVars, projVars>>)

InitKeys ==
    /\ InitController /\ InitCanvas /\ InitSensors /\ InitParse /\ InitProjection
    /\ \E variant \in Variants : viewer = init(constructor(variant, FALSE, TRUE))
    /\ declLatitude = 0 /\ declLongitude = 0 /\ declResult = Unset
    /\ lstDate = 0 /\ lstLongitude = Integer(0) /\ lstResult = Unset
    /\ isIOS \in BOOLEAN
    /\ rotation = [x |-> 0, y |-> 0]
    /\ gridVisible = TRUE

SpecKeys == InitKeys /\ [][NextKeys]_vars

(***************************************************************************)
(* Properties.                                                             *)
(***************************************************************************)
\* the kinds of a timeline's entries, in order
Kinds(seq) == [i \in 1..Len(seq) |-> seq[i].type]

RECURSIVE TotalDuration(_)
TotalDuration(seq) ==
    IF seq = <<>> THEN 0 ELSE Head(seq).duration + TotalDuration(Tail(seq))

\* the positions of the 'on' entries of a timeline, in order
RECURSIVE OnPositions(_, _)
OnPositions(seq, from) ==
    IF from > Len(seq) THEN <<>>
    ELSE IF seq[from].type = "on" THEN <<from>> \o OnPositions(seq, from + 1)
    ELSE OnPositions(seq, from + 1)

\* the total off time between each two consecutive pulses of a timeline
InterPulseGaps(seq) ==
    LET on == OnPositions(seq, 1) IN
    [k \in 1..(Len(on) - 1) |-> TotalDuration(SubSeq(seq, on[k] + 1, on[k + 1] - 1))]

\* the timeline the encoding rules give a text of mapped characters other than
\* the space: per character its pulses, 200 ms for a dot and 600 ms for a dash,
\* 200 ms off between two pulses of a character, 600 ms off between characters
RECURSIVE CharTimeline(_)
CharTimeline(symbols) ==
    IF symbols = <<>> THEN <<>>
    ELSE LET pulse == On(IF Head(symbols) = "." THEN 200 ELSE 600) IN
         IF Len(symbols) = 1 THEN <<pulse>>
         ELSE <<pulse, Off(200)>> \o CharTimeline(Tail(symbols))

RECURSIVE TextTimeline(_, _)
TextTimeline(tbl, txt) ==
    IF txt = <<>> THEN <<>>
    ELSE LET first == CharTimeline(tbl[toUpperCase(<<Head(txt)>>)[1]]) IN
         IF Len(txt) = 1 THEN first
         ELSE first \o <<Off(600)>> \o TextTimeline(tbl, Tail(txt))

\* every character of txt is in the table and is not the space
MappedNoSpace(tbl, txt) ==
    \A i \in 1..Len(txt) : toUpperCase(<<txt[i]>>) \in {<<ch>> : ch \in (DOMAIN tbl) \ {" "}}

\* the number of pulses of a text of mapped characters
RECURSIVE PulseCount(_, _)
PulseCount(tbl, txt) ==
    IF txt = <<>> THEN 0
    ELSE Len(tbl[toUpperCase(<<Head(txt)>>)[1]]) + PulseCount(tbl, Tail(txt))

\* C1: when the page calls play(B) while the run of play(A) is Playing, A's
\* pending timer is cancelled: from then on the only timer pending is the one
\* B's latest step set, no callback is invoked but for B's timeline, entry by
\* entry in order, and the run ends with B's completion callback.
C1_ReplacedRunOnly ==
    replaced =>
        /\ sequence = parseSequence(text)
        /\ Len(timers) <= 1
        /\ \A i \in 1..Len(timers) :
               /\ timers[i].id = currentTimeout
               /\ timers[i].left <= sequence[currentIndex + 1].duration
        /\ IF isPlaying
           THEN /\ Len(timers) = 1
                /\ currentIndex < Len(sequence)
                /\ log = Kinds(SubSeq(sequence, 1, currentIndex + 1))
           ELSE /\ timers = <<>>
                /\ log = Kinds(sequence) \o <<"off", "complete">>

\* a run that replaced a Playing one has played its three entries to the end
C1_Witness ==
    /\ replaced
    /\ ~isPlaying
    /\ Len(sequence) = 3
    /\ log = <<"on", "off", "on", "off", "complete">>

\* C2: on the canvas page at most one processMorseQueue timer is pending at
\* any time, and no entry's brightness is overwritten before the entry's
\* duration has elapsed.
C2_OneCanvasTimer ==
    /\ Len(canvasTimers) <= 1
    /\ ~entryCut

\* C3: once stop() is the latest call into the controller, wherever it was
\* called from, the controller is Idle with no timer pending, and no timer
\* that fires later invokes a callback.
C3_StopLeavesIdle ==
    stopCalled =>
        /\ ~isPlaying
        /\ currentTimeout = NULL
        /\ timers = <<>>
        /\ ~lateCallback

\* C4: whatever play() calls are made, from the page or from inside a
\* callback, at most one sequencer timer is pending at any time.
C4_OneTimerChain ==
    Len(timers) <= 1

\* a run of the page's play() that no stop() ended has come to its end
Exhausted ==
    plays > 0 /\ ~isPlaying /\ ~stopCalled

\* C5: when a run exhausts its cursor the completion callback has been invoked
\* exactly once, no timer is pending and the brightness is back at 1.0.
C5_CompletionRestoresIdle ==
    Exhausted =>
        /\ completions = 1
        /\ currentTimeout = NULL
        /\ timers = <<>>
        /\ brightness = FULL

\* C6: a second stop() in a row leaves isPlaying, currentTimeout, sequence and
\* currentIndex as the first left them, and the brightness at 1.0.
C6_SecondStopIdempotent ==
    [][(stopsInRow = 1 /\ stopsInRow' = 2) =>
          /\ UNCHANGED <<isPlaying, currentTimeout, sequence, currentIndex>>
          /\ brightness' = FULL]_vars

\* a Morse run of the canvas page is in progress: entries are left in the
\* queue, or the duration of the entry dequeued last has not elapsed
MorseRunInProgress ==
    morseQueue # <<>> \/ entryLeft > 0

\* C7: while a Morse run is in progress on the canvas page, animate() has not
\* written the twinkle value over the brightness the run set.
C7_NoTwinkleDuringRun ==
    MorseRunInProgress => lastWriter # "twinkle"

SOS == <<"S", "O", "S">>

\* C8: parseSequence of a text of mapped characters other than the space is
\* the timeline of the encoding rules, with no leading or trailing gap; for
\* SOS it is three 200 ms pulses, 600 ms off, three 600 ms pulses, 600 ms off,
\* three 200 ms pulses, 5400 ms in all.
C8_ParseSequenceTimeline ==
    (pParsed /\ MappedNoSpace(MORSE_CODE, pText)) =>
        /\ pSequence = TextTimeline(MORSE_CODE, pText)
        /\ pText = SOS =>
               /\ pSequence = <<On(200), Off(200), On(200), Off(200), On(200),
                                Off(600),
                                On(600), Off(200), On(600), Off(200), On(600),
                                Off(600),
                                On(200), Off(200), On(200), Off(200), On(200)>>
               /\ TotalDuration(pSequence) = 5400

\* parseSequence has been applied to SOS
C8_Witness ==
    pParsed /\ pText = SOS /\ Len(pSequence) = 17

\* C9: the queue startMorseCode builds for a text of mapped letters has a
\* symbol gap after each pulse but the last of a character, so that the off
\* time between two letters is the letter gap of 600 ms.
C9_CanvasLetterGap ==
    (pQueued /\ MappedNoSpace(CANVAS_MORSE_CODE, pText)) =>
        /\ pQueue = TextTimeline(CANVAS_MORSE_CODE, pText)
        /\ \A k \in 1..(Len(pText) - 1) :
               InterPulseGaps(pQueue)[PulseCount(CANVAS_MORSE_CODE, SubSeq(pText, 1, k))] = 600

\* txt is two words of mapped characters with one space between them, the
\* first word k characters long
TwoWords(txt, k) ==
    /\ k >= 1
    /\ k + 1 < Len(txt)
    /\ txt[k + 1] = " "
    /\ MappedNoSpace(MORSE_CODE, SubSeq(txt, 1, k))
    /\ MappedNoSpace(MORSE_CODE, SubSeq(txt, k + 2, Len(txt)))

\* C10: in parseSequence of two words separated by one space, the off time
\* between the last pulse of the first word and the first pulse of the second
\* is the word gap of 1400 ms.
C10_WordGap ==
    pParsed =>
        \A k \in 1..Len(pText) :
            TwoWords(pText, k) =>
                InterPulseGaps(pSequence)[PulseCount(MORSE_CODE, SubSeq(pText, 1, k))] = 1400

\* txt without the characters that are not in the MORSE_CODE table
StripUnmapped(txt) ==
    SelectSeq(txt, LAMBDA ch : toUpperCase(<<ch>>) \in {<<c>> : c \in DOMAIN MORSE_CODE})

\* C11: parseSequence skips unmapped characters: the timeline of a text is the
\* timeline of the text with its unmapped characters removed.
C11_UnmappedSkipped ==
    pParsed => pSequence = parseSequence(StripUnmapped(pText))

\* seq has two entries of the given kind next to each other
Consecutive(seq, kind) ==
    \E i \in 1..(Len(seq) - 1) : seq[i].type = kind /\ seq[i + 1].type = kind

\* C14: a timeline of parseSequence never has two 'on' entries in a row, and has
\* two 'off' entries in a row only when the text has a space.
C14_Alternation ==
    pParsed =>
        /\ ~Consecutive(pSequence, "on")
        /\ Consecutive(pSequence, "off") => \E i \in 1..Len(pText) : pText[i] = " "

\* C12: after play(text) with a text that is empty or has unmapped characters
\* only, of any length, the timeline is empty, no timer is pending and the
\* completion callback has run, all before play() returned.
C12_AllUnmappedCompletesAtOnce ==
    (plays > 0 /\ StripUnmapped(text) = <<>>) =>
        /\ sequence = <<>>
        /\ timers = <<>>
        /\ completions = 1
        /\ ~isPlaying

\* the time at which entry i of seq starts in an uninterrupted run: the sum of
\* the durations of the entries before it
StartOf(seq, i) == TotalDuration(SubSeq(seq, 1, i - 1))

\* C13: in a run that is neither stopped nor replaced, the callback of each
\* entry is invoked once, in timeline order, when the durations of the entries
\* before it have elapsed, and the completion callback when the total duration
\* of the timeline has.
C13_UninterruptedRunTiming ==
    (plays > 0 /\ ~stopCalled) =>
        LET n == IF isPlaying THEN currentIndex + 1 ELSE Len(sequence) IN
        /\ isPlaying => currentIndex < Len(sequence)
        /\ Len(stamps) = Len(log)
        /\ \A i \in 1..n : log[i] = sequence[i].type /\ stamps[i] = StartOf(sequence, i)
        /\ isPlaying => Len(log) = n
        /\ ~isPlaying =>
              /\ SubSeq(log, n + 1, Len(log)) = <<"off", "complete">>
              /\ stamps[n + 1] = TotalDuration(sequence)
              /\ stamps[n + 2] = TotalDuration(sequence)

C13_Witness ==
    /\ plays > 0 /\ ~stopCalled /\ ~isPlaying
    /\ text = <<"E", " ", "T">>
    /\ log = <<"on", "off", "off", "on", "off", "complete">>
    /\ stamps = <<0, 200, 1600, 2200, 2800, 2800>>

\* C16: when the location request of the canvas page has failed, or the browser
\* has no geolocation, and initSensors has run, the observer's location is the
\* default one (40.7128, -74.0060): the latitude is not left unset.
C16_LocationFallback ==
    (sensorsOn /\ geolocation \in {"error", "unsupported"}) =>
        locationData = [latitude |-> Val(CANVAS_DEFAULT_LATITUDE),
                        longitude |-> Val(CANVAS_DEFAULT_LONGITUDE)]

\* the event has a null alpha, beta or gamma
HasNull(event) ==
    event.alpha = Unset \/ event.beta = Unset \/ event.gamma = Unset

\* C17: after an orientation event with a null alpha, beta or gamma, the canvas
\* page's deviceOrientation has the alpha, beta and gamma it had before the event.
C17_NullReadingIgnored ==
    (orientationEvent # Unset /\ HasNull(orientationEvent[1])) =>
        deviceOrientation = prevOrientation

\* C19: on the canvas page, while locationData.latitude is null,
\* calculateStarPosition returns null and an animation frame does not call
\* drawStar; a frame that called drawStar came after the success or the error
\* callback of the location request had set the latitude.
C19_NoDrawWithoutLatitude ==
    /\ locationData.latitude = Unset =>
          /\ \A sky \in SkyPositions : calculateStarPosition(locationData, sky) = Unset
          /\ frame # Unset => frame[1].starPos = Unset /\ ~frame[1].drawStar
    /\ (frame # Unset /\ frame[1].drawStar) =>
          /\ locationData.latitude # Unset
          /\ geolocation \in {"success", "error"}

C19_Witness ==
    /\ locationData.latitude = Unset
    /\ deviceOrientation = [alpha |-> 10, beta |-> 60, gamma |-> 5]
    /\ frame # Unset
    /\ ~frame[1].drawStar

\* heading 0 and tilt 0, and getScreenPosition has been applied to the target
LevelNorth ==
    projected /\ deviceOrientation.alpha = 0 /\ deviceOrientation.beta = 0

\* C20 (as claimed): with heading 0, tilt 0 and a field of view of 60,
\* getScreenPosition returns a position for the target at azimuth 40, altitude
\* 50, and null for the target at azimuth 40, altitude 5.
C20_VisibleAtAltitude50 ==
    (LevelNorth /\ targetAzimuth = 40) =>
        /\ targetAltitude = 50 => projection # Unset
        /\ targetAltitude = 5 => projection = Unset

\* C20 (amended): with heading 0, tilt 0 and a field of view of 60,
\* getScreenPosition returns null for the target at azimuth 40, altitude 50 and
\* for the target at azimuth 40, altitude 5: the relative azimuth, 40, is more
\* than half the field of view for both.
C20_NotVisibleAtAzimuth40 ==
    (LevelNorth /\ targetAzimuth = 40) =>
        /\ targetAltitude = 50 => projection = Unset
        /\ targetAltitude = 5 => projection = Unset

C20_Witness ==
    /\ LevelNorth
    /\ targetAzimuth = 40
    /\ targetAltitude = 50
    /\ projection = Unset

\* C15: in the lock-once variants the star's position is written at most once,
\* and once starPositioned is true the position and the visible flag are those
\* written then, whatever orientation events and location results follow.
C15_LockedOnce ==
    viewer.variant \in LockOnce =>
        /\ viewer.positionWrites <= 1
        /\ viewer.starPositioned <=> viewer.positionWrites = 1
        /\ viewer.starPositioned =>
              viewer.lockedStar = Val(<<viewer.starPosition, viewer.starVisible>>)

C15_Witness ==
    /\ viewer.variant \in LockOnce
    /\ viewer.starPositioned
    /\ viewer.location = "success"
    /\ viewer.trueHeading # Unset
    /\ viewer.starPosition[1].bearing # -viewer.trueHeading[1]

\* C18: once the motion-permission request has resolved to something other than
\* 'granted', or has thrown, startTracking has not run (no deviceorientation
\* listener is registered) and the star has not been made visible, in
\* src/public/app.js and in part_002.
C18_NoTrackingWithoutPermission ==
    (viewer.variant \in {"public/app.js", "part_002"}
        /\ viewer.permission \in {"denied", "throws"}
        /\ ~viewer.hasPermission) =>
        /\ viewer.listeners = 0
        /\ viewer.starVisible # "true"

\* the step is handleOrientation on an event with non-null alpha, beta and gamma
NonNullOrientationStep ==
    /\ viewer.listeners > 0
    /\ \E event \in HeadingEvents :
           /\ ~HasNull(event)
           /\ viewer' = dispatchOrientation(viewer, event, viewer.listeners)

\* C21: after every orientation event with non-null fields, trueHeading is
\* (magneticHeading + magneticDeclination + 360) mod 360 and lies in [0, 360),
\* for alpha and webkitCompassHeading in [0, 360] and the declinations of
\* calculateMagneticDeclination.
C21_TrueHeadingInRange ==
    [][NonNullOrientationStep =>
          /\ viewer'.trueHeading # Unset
          /\ viewer'.magneticHeading # Unset
          /\ viewer'.trueHeading[1] =
                 (viewer'.magneticHeading[1] + viewer'.magneticDeclination + FULL_TURN)
                     % FULL_TURN
          /\ viewer'.trueHeading[1] >= 0
          /\ viewer'.trueHeading[1] < FULL_TURN]_vars

C21_Witness ==
    /\ viewer.magneticDeclination = -3175
    /\ viewer.magneticHeading = Val(0)
    /\ viewer.trueHeading = Val(32825)

\* the longitude bands of calculateMagneticDeclination
Bands == {[from |-> -130, to |-> -70], [from |-> -10, to |-> 40],
          [from |-> 70, to |-> 150]}

BandsOf(longitude) == {b \in Bands : longitude >= b.from /\ longitude <= b.to}

\* C22: the three longitude bands of calculateMagneticDeclination are disjoint,
\* no longitude is in two of them, and for a longitude outside all three the
\* result is longitude * 0.1 + (latitude - 45) * 0.05.
C22_DeclinationBands ==
    /\ \A b1, b2 \in Bands : b1 # b2 => (b1.to < b2.from \/ b2.to < b1.from)
    /\ declResult # Unset =>
          /\ Cardinality(BandsOf(declLongitude)) <= 1
          /\ BandsOf(declLongitude) = {} =>
                declResult = Val(declLongitude * 10 + (declLatitude - 45) * 5)

C22_Witness ==
    /\ declLongitude = -69
    /\ declLatitude = 90
    /\ declResult = Val(-465)

\* x < y on doubles
Less(x, y) == Negative(Add(x, [y EXCEPT !.neg = ~@]))

\* C23: calculateLocalSiderealTime returns a value in [0, 24) for every date and
\* longitude, dates before the epoch and negative longitudes included.
C23_SiderealTimeInRange ==
    lstResult # Unset =>
        /\ ~Negative(lstResult[1])
        /\ Less(lstResult[1], Integer(24))

\* C24: with play() and stop() called by the page only, between events a timer
\* is pending exactly when isPlaying is true, and while a timer is pending
\* 0 <= currentIndex < sequence.length.
C24_TimerPendingIffPlaying ==
    /\ (timers # <<>>) <=> isPlaying
    /\ timers # <<>> => (currentIndex >= 0 /\ currentIndex < Len(sequence))

\* a run that replaced another one is under way, past its first entry
C24_Witness ==
    /\ replaced
    /\ isPlaying
    /\ Len(timers) = 1
    /\ currentIndex > 0
    /\ currentIndex < Len(sequence)

\* C25: in src/public/app.js, once confirmCalibration has run with a non-null
\* trueHeading and the location result has been processed by
\* updateNorthStarPosition, the star is positioned and visible, whichever of the
\* two came first.
C25_CalibratedAndLocatedIsVisible ==
    (viewer.variant = "public/app.js"
        /\ viewer.calibrationOffset # Unset
        /\ viewer.location # "pending") =>
        /\ viewer.starPosition # Unset
        /\ viewer.starVisible = "true"

\* the step locks the star of a lock-once variant
LockStep ==
    /\ viewer.variant \in LockOnce
    /\ ~viewer.starPositioned
    /\ viewer'.starPositioned

\* C26: in the lock-once variants the trueHeading from which the star is locked
\* is the one computed with the magneticDeclination of the resolved location,
\* also when the first orientation reading came before the location result.
C26_LockedWithResolvedDeclination ==
    [][LockStep =>
          /\ viewer'.starPosition[1].bearing = -viewer'.trueHeading[1]
          /\ viewer'.trueHeading[1] =
                 JsRem(viewer'.magneticHeading[1] + viewer'.magneticDeclination
                           + FULL_TURN, FULL_TURN)]_vars

\* C27: in the lock-once variants, once a location result (success or fallback)
\* and an orientation event with non-null alpha, beta and gamma have both been
\* processed, in either order, starPositioned is true and the star is visible.
C27_LocatedAndOrientedIsPositioned ==
    (viewer.variant \in LockOnce
        /\ viewer.location # "pending"
        /\ viewer.trueHeading # Unset) =>
        /\ viewer.starPositioned
        /\ viewer.starPosition # Unset
        /\ viewer.starVisible = "true"

\* the location request failed and a reading was processed: the star is locked
\* at the fallback's elevation
C27_Witness ==
    /\ viewer.variant \in LockOnce
    /\ viewer.location \in {"error", "unsupported"}
    /\ viewer.trueHeading # Unset
    /\ viewer.starPositioned
    /\ viewer.starPosition[1].elevation = DEFAULT_LATITUDE

\* C28: in src/public/app.js, after startTracking the star is visible only if
\* calibrationOffset is non-null and equal to -calibrationHeading and
\* polarisElevation is defined; it is never visible before a confirmCalibration
\* with a non-null trueHeading.
C28_VisibleOnlyCalibrated ==
    (viewer.variant = "public/app.js"
        /\ viewer.calibrateListeners > 0
        /\ viewer.starVisible = "true") =>
        /\ viewer.calibrationOffset # Unset
        /\ viewer.calibrationHeading # Unset
        /\ viewer.calibrationOffset[1] = -viewer.calibrationHeading[1]
        /\ viewer.polarisElevation # Unset

\* the star is visible after a calibration at a heading other than north
C28_Witness ==
    /\ viewer.variant = "public/app.js"
    /\ viewer.calibrateListeners > 0
    /\ viewer.starVisible = "true"
    /\ viewer.calibrationHeading # Unset
    /\ viewer.calibrationHeading[1] # 0

\* the step is a click on the calibrate button, with the listener of
\* setupCalibration attached, while not calibrating
ClickWhileNotCalibrating ==
    /\ viewer.variant = "public/app.js"
    /\ viewer.calibrateListeners > 0
    /\ ~viewer.isCalibrating
    /\ viewer' = calibrateClick(viewer)

\* C29: in src/public/app.js a click on the calibrate button while not
\* calibrating (the first click, or 'Recalibrate' after a confirmed calibration)
\* only sets isCalibrating and leaves calibrationOffset unchanged.
C29_TwoClicksEveryRound ==
    [][ClickWhileNotCalibrating =>
          /\ viewer'.isCalibrating
          /\ viewer'.calibrationOffset = viewer.calibrationOffset]_vars

\* the eight labels
Labels == {DIRECTIONS[i] : i \in 1..Len(DIRECTIONS)}

\* C30: getCompassDirection returns one of the eight labels N, NE, E, SE, S, SW,
\* W, NW for every heading it is called with: every rotation.y % 360 reachable
\* through ArrowLeft (+5) and ArrowRight (-5) presses in the desktop controls
\* and every trueHeading in [0, 360).  Stated on the text of the compass
\* element, which the keydown listener and handleOrientation write.
C30_CompassLabel ==
    viewer.compassValue # Unset => viewer.compassValue[1] \in Labels

====
